---- MODULE Spec2Model ----
(***************************************************************************)
(* Verification model of the news retrieval service: the intent-driven     *)
(* filter pipeline (FilterChain.Execute, Chain, the five filters), the     *)
(* persistence queries they delegate to, and the trending scorer with its  *)
(* Redis cache.                                                            *)
(*                                                                         *)
(* Units.  Relevance scores and thresholds are in hundredths (0.7 = 70).   *)
(* Coordinates are in 1/10000 degree (19.0760 = 190760).  Distances are in *)
(* whole kilometres.  The clock counts quarter days (6 hours).             *)
(***************************************************************************)
EXTENDS Integers, Sequences, FiniteSets, TLC

VARIABLES
    db,          \* rows of the articles table
    pc,          \* position of the Execute call: "idle", "chain", "done"
    req,         \* arguments of the Execute call
    filters,     \* the []Filter slice Execute has built
    idx,         \* index of the next filter Chain will call
    articles,    \* Chain's local slice of candidates
    result,      \* what Execute returned: [articles, err]
    trace,       \* one record per filter call Chain has made
    now,         \* wall clock
    userEvents,  \* rows of the user_events table, as counts per article and timestamp
    cache,       \* Redis keyspace: key -> [payload, expires]
    lastTrending,\* the last GetTrendingNews call: arguments, observations, return value
    lastGet,     \* the last GetCachedTrending call: arguments and return value
    served,      \* trending handler calls served so far
    load,        \* the LoadFromJSON call in progress: main goroutine, workers, shared data
    lastInsert,  \* the last Insert or BulkInsert call: arguments and return values
    reply,       \* the ProcessArticleQuery call: its stage and what it returned
    cancelled    \* the caller's request context has been cancelled or has timed out

vars == <<db, pc, req, filters, idx, articles, result, trace,
          now, userEvents, cache, lastTrending, lastGet, served, load, lastInsert,
          reply, cancelled>>

--------------------------------------------------------------------------
(* Bounds of the model *)

MaxIntents == 2      \* longest intents list handed to Execute
MaxNow == 2          \* last clock value reached by Tick
MaxLimit == 2        \* largest limit handed to GetTrendingNews

--------------------------------------------------------------------------
(* Generic helpers *)

Range(s) == {s[i] : i \in 1..Len(s)}

Min(a, b) == IF a <= b THEN a ELSE b

SeqsUpTo(S, n) == UNION {[1..k -> S] : k \in 0..n}

\* All sequences listing every element of S once.
Perms(S) == {s \in [1..Cardinality(S) -> S] : \A i, j \in 1..Cardinality(S) : i # j => s[i] # s[j]}

\* The slice s with the elements at i and j exchanged.
Swap(s, i, j) ==
    [k \in 1..Len(s) |-> IF k = i THEN s[j] ELSE IF k = j THEN s[i] ELSE s[k]]

--------------------------------------------------------------------------
(* sort.Slice.  For slices of at most 12 elements the library runs          *)
(* insertionSortLessFunc: for i := a+1; i < b; i++ { for j := i; j > a &&  *)
(* less(j, j-1); j-- { swap(j, j-1) } }.  The model's slices are far        *)
(* shorter than 12.                                                         *)

\* less given on the CURRENT contents of the slice being sorted:
\* before is the set of pairs <<x, y>> with less(x, y).
RECURSIVE insertionInner(_, _, _)
insertionInner(s, j, before) ==
    IF j > 1 /\ <<s[j], s[j-1]>> \in before
    THEN insertionInner(Swap(s, j, j-1), j-1, before)
    ELSE s

RECURSIVE insertionOuter(_, _, _)
insertionOuter(s, i, before) ==
    IF i > Len(s) THEN s
    ELSE insertionOuter(insertionInner(s, i, before), i+1, before)

sortSlice(s, before) == insertionOuter(s, 2, before)

\* less given on INDICES only (a comparator that reads some other slice):
\* lessIdx is the set of pairs <<i, j>> (1-based) with less(i, j).
RECURSIVE insertionInnerIdx(_, _, _)
insertionInnerIdx(s, j, lessIdx) ==
    IF j > 1 /\ <<j, j-1>> \in lessIdx
    THEN insertionInnerIdx(Swap(s, j, j-1), j-1, lessIdx)
    ELSE s

RECURSIVE insertionOuterIdx(_, _, _)
insertionOuterIdx(s, i, lessIdx) ==
    IF i > Len(s) THEN s
    ELSE insertionOuterIdx(insertionInnerIdx(s, i, lessIdx), i+1, lessIdx)

sortSliceIdx(s, lessIdx) == insertionOuterIdx(s, 2, lessIdx)

--------------------------------------------------------------------------
(* Geography *)

\* The coordinates the model uses, as <<latitude, longitude>>.
PM  == <<190760, 728777>>
PM2 == <<190761, 728778>>
PT  == <<192183, 729781>>
PF  == <<196000, 729000>>
PZ  == <<0, 728777>>
P00 == <<0, 0>>

\* haversineDistance with earthRadiusKm = 6371, evaluated on the model's points
\* and rounded to whole kilometres (the formula is symmetric, so each unordered
\* pair is listed once).
haversineTable ==
    [p \in {<<PM, PM2>>, <<PM, PT>>, <<PM, PF>>, <<PM, PZ>>, <<PM, P00>>,
            <<PM2, PT>>, <<PM2, PF>>, <<PM2, PZ>>, <<PM2, P00>>,
            <<PT, PF>>, <<PT, PZ>>, <<PT, P00>>,
            <<PF, PZ>>, <<PF, P00>>, <<PZ, P00>>} |->
        CASE p = <<PM, PM2>> -> 0
          [] p = <<PM, PT>> -> 19
          [] p = <<PM, PF>> -> 58
          [] p = <<PM, PZ>> -> 2121
          [] p = <<PM, P00>> -> 8211
          [] p = <<PM2, PT>> -> 19
          [] p = <<PM2, PF>> -> 58
          [] p = <<PM2, PZ>> -> 2121
          [] p = <<PM2, P00>> -> 8211
          [] p = <<PT, PF>> -> 43
          [] p = <<PT, PZ>> -> 2137
          [] p = <<PT, P00>> -> 8223
          [] p = <<PF, PZ>> -> 2179
          [] p = <<PF, P00>> -> 8219
          [] p = <<PZ, P00>> -> 8104]

haversineDistance(lat1, lon1, lat2, lon2) ==
    LET a == <<lat1, lon1>>
        b == <<lat2, lon2>>
    IN  IF a = b THEN 0
        ELSE IF <<a, b>> \in DOMAIN haversineTable THEN haversineTable[<<a, b>>]
        ELSE haversineTable[<<b, a>>]

--------------------------------------------------------------------------
(* Embedding vectors and cosine similarity *)

\* The sum of u[i] * v[i] over the indices of u (the callers pass equal lengths).
RECURSIVE DotUpTo(_, _, _)
DotUpTo(u, v, n) == IF n = 0 THEN 0 ELSE DotUpTo(u, v, n - 1) + u[n] * v[n]

Dot(u, v) == DotUpTo(u, v, Len(u))

\* cosineSimilarity(vec1, vec2) = dotProduct / (sqrt(norm1) * sqrt(norm2)), or 0
\* when the lengths differ or a norm is 0.  The value is kept exactly, as
\* [num, den2] standing for num / sqrt(den2) with den2 > 0.
cosineSimilarity(vec1, vec2) ==
    IF Len(vec1) # Len(vec2) THEN [num |-> 0, den2 |-> 1]
    ELSE IF Dot(vec1, vec1) = 0 \/ Dot(vec2, vec2) = 0 THEN [num |-> 0, den2 |-> 1]
    ELSE [num |-> Dot(vec1, vec2), den2 |-> Dot(vec1, vec1) * Dot(vec2, vec2)]

\* x > y for two similarities.
SimGreater(x, y) ==
    IF x.num >= 0 /\ y.num < 0 THEN TRUE
    ELSE IF x.num < 0 /\ y.num >= 0 THEN FALSE
    ELSE IF x.num >= 0 THEN x.num * x.num * y.den2 > y.num * y.num * x.den2
    ELSE x.num * x.num * y.den2 < y.num * y.num * x.den2

--------------------------------------------------------------------------
(* The corpus.  Strings (category labels, source names, query words) are   *)
(* sequences of characters.                                                *)

Article(id, cats, src, score, p, pub, vec) ==
    [ID |-> id, Category |-> cats, SourceName |-> src, RelevanceScore |-> score,
     Latitude |-> p[1], Longitude |-> p[2], PublicationDate |-> pub,
     DescriptionVector |-> vec]

Reuters == <<"R", "e", "u">>
BBCNews == <<"B", "B", "C", " ", "N">>

Tech == <<"t", "e">>
Sports == <<"s", "p">>
Health == <<"h", "e">>

A1 == Article("a1", {Tech}, Reuters, 90, PM, -4, <<1, 0>>)
A2 == Article("a2", {Tech, Sports}, BBCNews, 50, PT, -8, <<0, 1>>)
A3 == Article("a3", {Sports}, Reuters, 80, PF, -12, <<>>)
A4 == Article("a4", {Tech}, BBCNews, 5, PM2, -16, <<1, 1>>)

Corpus == {A1, A2, A3, A4}

\* The tables the model starts from.
Corpora == {{}, {A1, A2}, {A3, A4}, {A1, A2, A3}, Corpus}

--------------------------------------------------------------------------
(* String functions *)

ToLowerChar(c) ==
    CASE c = "R" -> "r"
      [] c = "B" -> "b"
      [] c = "C" -> "c"
      [] c = "N" -> "n"
      [] OTHER -> c

ToLower(s) == [i \in 1..Len(s) |-> ToLowerChar(s[i])]

\* strings.TrimSpace
RECURSIVE TrimLeft(_)
TrimLeft(s) == IF Len(s) > 0 /\ s[1] = " " THEN TrimLeft(Tail(s)) ELSE s

RECURSIVE TrimRight(_)
TrimRight(s) == IF Len(s) > 0 /\ s[Len(s)] = " " THEN TrimRight(SubSeq(s, 1, Len(s) - 1)) ELSE s

TrimSpace(s) == TrimRight(TrimLeft(s))

\* sub occurs in s
Contains(s, sub) ==
    \E k \in 0..(Len(s) - Len(sub)) : \A i \in 1..Len(sub) : s[k + i] = sub[i]

\* name ILIKE '%pattern%'
ILike(name, pattern) == Contains(ToLower(name), ToLower(pattern))

\* strings.Join(items, sep) == "": no item, or a single empty item
JoinIsEmpty(items) == Len(items) = 0 \/ (Len(items) = 1 /\ Len(items[1]) = 0)

\* QuoteAndEscapeStrings(strings.Join(items, ",")): the items trimmed, the
\* empty ones dropped (labels hold no comma and no quote).
QuoteAndEscapeStrings(items) ==
    LET trimmed == [i \in 1..Len(items) |-> TrimSpace(items[i])]
        NonEmpty(x) == Len(x) > 0
    IN  SelectSeq(trimmed, NonEmpty)

\* FormatStringsForLikeQuery: the patterns '%s%' of the trimmed, non-empty values.
FormatStringsForLikeQuery(values) ==
    LET trimmed == [i \in 1..Len(values) |-> TrimSpace(values[i])]
        NonEmpty(x) == Len(x) > 0
    IN  SelectSeq(trimmed, NonEmpty)

\* strconv.ParseFloat on a coordinate string: its value, or 0 with an error.
ParseFloat(tok) == IF tok.num THEN [v |-> tok.v, err |-> FALSE] ELSE [v |-> 0, err |-> TRUE]

--------------------------------------------------------------------------
(* Persistence: articleRepository *)

\* Scan fills the columns the SELECT lists; description_vector is listed by
\* neither FindAll nor FilterArticles, so the field keeps its zero value.
Scan(row) == [row EXCEPT !.DescriptionVector = <<>>]

\* The orders in which a query with ORDER BY may return the rows S:
\* <<x, y>> \in leq says x may come before y.
RECURSIVE OrderedBy(_, _)
OrderedBy(S, leq) ==
    IF S = {} THEN {<<>>}
    ELSE UNION { {<<x>> \o t : t \in OrderedBy(S \ {x}, leq)} :
                 x \in {y \in S : \A z \in S \ {y} : <<y, z>> \in leq} }

\* The outcomes of a query selecting the rows S: an error, or the scanned
\* rows in an order the ORDER BY allows.
QueryOutcomes(S, leq) ==
    {[rows |-> <<>>, err |-> TRUE]} \cup
    {[rows |-> s, err |-> FALSE] : s \in OrderedBy({Scan(r) : r \in S}, leq)}

\* All pairs of scanned rows of S.
ScannedPairs(S) == {Scan(r) : r \in S} \X {Scan(r) : r \in S}

FindAll(table) ==
    LET Leq(x, y) == x.PublicationDate >= y.PublicationDate
    IN  QueryOutcomes(table, {p \in ScannedPairs(table) : Leq(p[1], p[2])})

FilterArticlesRequest(category, source, lat, lon, radius, threshold) ==
    [Category |-> category, Source |-> source, Lat |-> lat, Lon |-> lon,
     Radius |-> radius, ScoreThreshold |-> threshold]

\* The WHERE clause FilterArticles builds.
MatchesRequest(a, params) ==
    /\ ~JoinIsEmpty(params.Category) =>
          Range(QuoteAndEscapeStrings(params.Category)) \subseteq a.Category
    /\ Len(params.Source) > 0 =>
          \E p \in Range(params.Source) : ILike(a.SourceName, p)
    /\ (params.Lat # 0 /\ params.Lon # 0) =>
          IF params.Radius > 0
          THEN haversineDistance(a.Latitude, a.Longitude, params.Lat, params.Lon) <= params.Radius
          ELSE a.Latitude = params.Lat /\ a.Longitude = params.Lon
    /\ params.ScoreThreshold > 0 => a.RelevanceScore >= params.ScoreThreshold

FilterArticles(table, params) ==
    LET rows == {a \in table : MatchesRequest(a, params)}
        Leq(x, y) ==
            IF params.Lat # 0 /\ params.Lon # 0 /\ params.Radius > 0
            THEN haversineDistance(x.Latitude, x.Longitude, params.Lat, params.Lon)
                 <= haversineDistance(y.Latitude, y.Longitude, params.Lat, params.Lon)
            ELSE IF params.ScoreThreshold > 0
            THEN x.RelevanceScore >= y.RelevanceScore
            ELSE x.PublicationDate >= y.PublicationDate
    IN  IF ~JoinIsEmpty(params.Category) /\ Len(QuoteAndEscapeStrings(params.Category)) = 0
        THEN {[rows |-> <<>>, err |-> TRUE]}     \* category @> ARRAY[] is rejected
        ELSE QueryOutcomes(rows, {p \in ScannedPairs(rows) : Leq(p[1], p[2])})

--------------------------------------------------------------------------
(* The filters.  Each yields the set of outcomes of one call on the slice   *)
(* in: [out, err, queried, embedded, vector], where queried says that the   *)
(* call ran a storage query, embedded that it asked for an embedding and    *)
(* vector is the embedding it got (<<>> when it got none).                  *)

Passed(in) ==
    {[out |-> in, err |-> FALSE, queried |-> FALSE, embedded |-> FALSE, vector |-> <<>>]}

Fetched(outcomes) ==
    {[out |-> o.rows, err |-> o.err, queried |-> TRUE, embedded |-> FALSE, vector |-> <<>>]
        : o \in outcomes}

InMemory(out) ==
    {[out |-> out, err |-> FALSE, queried |-> FALSE, embedded |-> FALSE, vector |-> <<>>]}

FilterByCategory(table, categories, in) ==
    IF Len(categories) = 0 THEN Passed(in)
    ELSE IF Len(in) > 0
    THEN LET Keep(a) == a.Category \cap Range(categories) # {}
         IN  InMemory(SelectSeq(in, Keep))
    ELSE Fetched(FilterArticles(table, FilterArticlesRequest(categories, <<>>, 0, 0, 0, 0)))

FilterBySource(table, sources, in) ==
    IF Len(sources) = 0 THEN Passed(in)
    ELSE IF Len(in) > 0
    THEN LET Keep(a) == a.SourceName \in Range(sources)
         IN  InMemory(SelectSeq(in, Keep))
    ELSE Fetched(FilterArticles(table,
             FilterArticlesRequest(<<>>, FormatStringsForLikeQuery(sources), 0, 0, 0, 0)))

\* FilterByScore without its in-memory branch: it always asks storage.
FilterByScoreAlwaysFetching(table, threshold, in) ==
    Fetched(FilterArticles(table, FilterArticlesRequest(<<>>, <<>>, 0, 0, 0, threshold)))

\* The comparator handed to sort.Slice reads the INPUT slice articles, not
\* the slice filteredArticles being sorted.
FilterByScore(table, threshold, in) ==
    IF Len(in) > 0
    THEN LET Keep(a) == a.RelevanceScore >= threshold
             lessIdx == {p \in (1..Len(in)) \X (1..Len(in)) :
                            in[p[1]].RelevanceScore > in[p[2]].RelevanceScore}
         IN  InMemory(sortSliceIdx(SelectSeq(in, Keep), lessIdx))
    ELSE Fetched(FilterArticles(table, FilterArticlesRequest(<<>>, <<>>, 0, 0, 0, threshold)))

\* The vectors GenerateEmbedding may return for a query.
QueryVectors == {<<1, 0>>, <<1, 1>>, <<0, 1>>}

\* FilterByTextSearch without its sort: the articles with a vector in input
\* order.
FilterByTextSearchUnsorted(query, in) ==
    IF Len(query) = 0 THEN Passed(in)
    ELSE IF Len(in) = 0 THEN Passed(in)
    ELSE IF JoinIsEmpty(query) THEN Passed(in)
    ELSE {[out |-> <<>>, err |-> TRUE, queried |-> FALSE, embedded |-> TRUE, vector |-> <<>>]} \cup
         { LET HasVector(a) == Len(a.DescriptionVector) # 0
           IN  [out |-> SelectSeq(in, HasVector),
                err |-> FALSE, queried |-> FALSE, embedded |-> TRUE, vector |-> queryVector]
           : queryVector \in QueryVectors }

FilterByTextSearch(query, in) ==
    IF Len(query) = 0 THEN Passed(in)
    ELSE IF Len(in) = 0 THEN Passed(in)
    ELSE IF JoinIsEmpty(query) THEN Passed(in)
    ELSE {[out |-> <<>>, err |-> TRUE, queried |-> FALSE, embedded |-> TRUE, vector |-> <<>>]} \cup
         { LET HasVector(a) == Len(a.DescriptionVector) # 0
               withVector == SelectSeq(in, HasVector)
               articlesWithSimilarity ==
                   [i \in 1..Len(withVector) |->
                       [article |-> withVector[i],
                        similarity |-> cosineSimilarity(queryVector, withVector[i].DescriptionVector)]]
               before == {p \in Range(articlesWithSimilarity) \X Range(articlesWithSimilarity) :
                             SimGreater(p[1].similarity, p[2].similarity)}
               sorted == sortSlice(articlesWithSimilarity, before)
           IN  [out |-> [i \in 1..Len(sorted) |-> sorted[i].article],
                err |-> FALSE, queried |-> FALSE, embedded |-> TRUE, vector |-> queryVector]
           : queryVector \in QueryVectors }

\* As in FilterByScore, the comparator reads the input slice articles.
FilterByRadius(table, lat, lon, radius, in) ==
    IF lat = 0 /\ lon = 0 THEN Passed(in)
    ELSE IF Len(in) > 0
    THEN LET Keep(a) == haversineDistance(lat, lon, a.Latitude, a.Longitude) <= radius
             lessIdx == {p \in (1..Len(in)) \X (1..Len(in)) :
                            haversineDistance(lat, lon, in[p[1]].Latitude, in[p[1]].Longitude)
                            < haversineDistance(lat, lon, in[p[2]].Latitude, in[p[2]].Longitude)}
         IN  InMemory(sortSliceIdx(SelectSeq(in, Keep), lessIdx))
    ELSE Fetched(FilterArticles(table, FilterArticlesRequest(<<>>, <<>>, lat, lon, radius, 0)))

--------------------------------------------------------------------------
(* FilterChain: the registry and Execute *)

IntentTypeCategory == "category"
IntentTypeScore == "score"
EntityTypeSearch == "search"
IntentTypeSource == "source"
IntentTypeNearby == "nearby"

\* Intent.Values is an interface{}: kind is its dynamic type ("[]string",
\* "string" or "other"), strs the labels it holds, nums the coordinate strings
\* it holds (a coordinate string is [num, v]: whether it parses, and its value).
Values(kind, strs, nums) == [kind |-> kind, strs |-> strs, nums |-> nums]

Intent(type, values) == [Type |-> type, Values |-> values]

CoordString(v) == [num |-> TRUE, v |-> v]

\* A built filter: the closure's captured parameters.  origin records which
\* statement of Execute appended it ("intent", "entities" or "trailing").
MkFilter(kind, origin, strs, threshold, lat, lon, radius) ==
    [kind |-> kind, origin |-> origin, strs |-> strs, threshold |-> threshold,
     lat |-> lat, lon |-> lon, radius |-> radius]

\* RegisterDefaultFilters: the kinds that have a factory.
filterRegistry ==
    {IntentTypeCategory, IntentTypeSource, IntentTypeScore, EntityTypeSearch, IntentTypeNearby}

\* One iteration of Execute's loop over intents: the filters it appends
\* (none when the iteration ends in continue).
IntentFilters(intent) ==
    LET v == intent.Values
    IN  IF intent.Type \notin filterRegistry THEN <<>>
        ELSE CASE intent.Type = IntentTypeCategory ->
                    IF v.kind = "[]string"
                    THEN <<MkFilter("category", "intent", v.strs, 0, 0, 0, 0)>>
                    ELSE IF v.kind = "string"
                    THEN <<MkFilter("category", "intent", <<v.strs[1]>>, 0, 0, 0, 0)>>
                    ELSE <<>>
               [] intent.Type = IntentTypeSource ->
                    IF v.kind = "[]string"
                    THEN <<MkFilter("source", "intent", v.strs, 0, 0, 0, 0)>>
                    ELSE <<MkFilter("source", "intent", <<>>, 0, 0, 0, 0)>>
               [] intent.Type = IntentTypeNearby ->
                    IF v.kind # "[]string" \/ Len(v.nums) < 2 THEN <<>>
                    ELSE <<MkFilter("radius", "intent", <<>>, 0,
                                    ParseFloat(v.nums[1]).v, ParseFloat(v.nums[2]).v, 50)>>
               [] intent.Type = IntentTypeScore ->
                    <<MkFilter("score", "intent", <<>>, 70, 0, 0, 0)>>
               [] OTHER ->
                    <<MkFilter("text", "intent", <<>>, 0, 0, 0, 0)>>

RECURSIVE FiltersOfIntents(_)
FiltersOfIntents(intents) ==
    IF Len(intents) = 0 THEN <<>>
    ELSE IntentFilters(Head(intents)) \o FiltersOfIntents(Tail(intents))

\* The filters slice Execute hands to Chain.
BuildFilters(intents, entities) ==
    LET fromIntents == FiltersOfIntents(intents)
    IN  IF Len(fromIntents) > 0
        THEN fromIntents \o <<MkFilter("text", "entities", entities, 0, 0, 0, 0),
                              MkFilter("score", "trailing", <<>>, 10, 0, 0, 0)>>
        ELSE fromIntents

NoLocation == [present |-> FALSE, Latitude |-> 0, Longitude |-> 0]

Location(p) == [present |-> TRUE, Latitude |-> p[1], Longitude |-> p[2]]

\* The first test of Execute without its location operand.
ShortCircuitIgnoringLocation(intents, entities, location) ==
    Len(intents) = 0 /\ Len(entities) = 0 /\ location.present

\* Execute's first test.
ShortCircuit(intents, entities, location) ==
    Len(intents) = 0 /\ Len(entities) = 0 /\ ~location.present

\* The call filter(ctx, &articles) for a built filter.
FilterOutcomes(table, f, in) ==
    CASE f.kind = "category" -> FilterByCategory(table, f.strs, in)
      [] f.kind = "source" -> FilterBySource(table, f.strs, in)
      [] f.kind = "score" -> FilterByScore(table, f.threshold, in)
      [] f.kind = "text" -> FilterByTextSearch(f.strs, in)
      [] OTHER -> FilterByRadius(table, f.lat, f.lon, f.radius, in)

--------------------------------------------------------------------------
(* The requests the model hands to Execute *)

AI == <<"A", "I">>

IntentValues ==
    { Intent(IntentTypeCategory, Values("[]string", <<Tech>>, <<>>)),
      Intent(IntentTypeCategory, Values("[]string", <<Tech, Sports>>, <<>>)),
      Intent(IntentTypeCategory, Values("[]string", <<Health>>, <<>>)),
      Intent(IntentTypeCategory, Values("other", <<>>, <<>>)),
      Intent(IntentTypeSource, Values("[]string", <<Reuters>>, <<>>)),
      Intent(IntentTypeSource, Values("other", <<>>, <<>>)),
      Intent(IntentTypeNearby, Values("[]string", <<>>, <<CoordString(PM[1]), CoordString(PM[2])>>)),
      Intent(IntentTypeNearby, Values("[]string", <<>>, <<CoordString(PM[1])>>)),
      Intent(IntentTypeScore, Values("other", <<>>, <<>>)),
      Intent("sentiment", Values("other", <<>>, <<>>)) }

EntityLists == {<<>>, <<AI>>}

Locations == {NoLocation, Location(PM)}

NoResult == [articles |-> <<>>, err |-> FALSE]

--------------------------------------------------------------------------
(* Execute and Chain as steps *)

\* Execute up to its call of Chain: the short circuit ends the call with what
\* FindAll returned; otherwise the filters are built and Chain starts from an
\* empty slice.
Execute ==
    /\ pc = "idle"
    /\ \E intents \in SeqsUpTo(IntentValues, MaxIntents),
          entities \in EntityLists, location \in Locations :
          /\ req' = [intents |-> intents, entities |-> entities, location |-> location]
          /\ IF ShortCircuit(intents, entities, location)
             THEN \E r \in FindAll(db) :
                     /\ result' = [articles |-> r.rows, err |-> r.err]
                     /\ pc' = "done"
                     /\ filters' = <<>>
             ELSE /\ filters' = BuildFilters(intents, entities)
                  /\ pc' = "chain"
                  /\ result' = result
    /\ idx' = 1
    /\ articles' = <<>>
    /\ trace' = <<>>
    /\ UNCHANGED <<db, now, userEvents, cache, lastTrending, lastGet, served, load, lastInsert, reply, cancelled>>

\* ChainStep with the error of the filter dropped: the loop goes on with the
\* slice it had.
ChainStepDroppingError ==
    /\ pc = "chain"
    /\ idx <= Len(filters)
    /\ \E o \in FilterOutcomes(db, filters[idx], articles) :
          /\ trace' = Append(trace, [filter |-> filters[idx], in |-> articles, out |-> o.out,
                                     err |-> o.err, queried |-> o.queried,
                                     embedded |-> o.embedded, vector |-> o.vector])
          /\ articles' = IF o.err THEN articles ELSE o.out
          /\ idx' = idx + 1
          /\ UNCHANGED <<pc, result>>
    /\ UNCHANGED <<db, req, filters, now, userEvents, cache, lastTrending, lastGet, served, load, lastInsert,
                   reply, cancelled>>

\* One iteration of Chain's loop: the call of filters[idx], and the return
\* of (nil, err) when it fails.
ChainStep ==
    /\ pc = "chain"
    /\ idx <= Len(filters)
    /\ \E o \in FilterOutcomes(db, filters[idx], articles) :
          /\ trace' = Append(trace, [filter |-> filters[idx], in |-> articles, out |-> o.out,
                                     err |-> o.err, queried |-> o.queried,
                                     embedded |-> o.embedded, vector |-> o.vector])
          /\ IF o.err
             THEN /\ pc' = "done"
                  /\ result' = [articles |-> <<>>, err |-> TRUE]
                  /\ UNCHANGED <<articles, idx>>
             ELSE /\ articles' = o.out
                  /\ idx' = idx + 1
                  /\ UNCHANGED <<pc, result>>
    /\ UNCHANGED <<db, req, filters, now, userEvents, cache, lastTrending, lastGet, served, load, lastInsert,
                   reply, cancelled>>

\* Chain's return after the loop, which Execute returns unchanged.
ChainReturn ==
    /\ pc = "chain"
    /\ idx > Len(filters)
    /\ result' = [articles |-> articles, err |-> FALSE]
    /\ pc' = "done"
    /\ UNCHANGED <<db, req, filters, idx, articles, trace,
                   now, userEvents, cache, lastTrending, lastGet, served, load, lastInsert,
                   reply, cancelled>>

\* The user_events table: userEvents[id][t] is the number of rows of article
\* id with timestamp t.  OldTime lies before every 7-day window of the model.
ArticleIDs == {"a1", "a2", "a3", "a4", "a5"}

OldTime == -40
EventTimes == {OldTime, -1} \cup (0..MaxNow)

NoEvents == [id \in ArticleIDs |-> [t \in EventTimes |-> 0]]

\* lastTrending before any GetTrendingNews call.  hadLiveEntry: the key of the
\* request held an unexpired entry when the call began; cacheRead: the call
\* read the cache; storageQueries: the storage queries it ran; scores: the
\* scores it computed; cached: its CacheTrending stored an entry; at: its time;
\* candidates: the IDs of the rows FindByIDs returned, in order; failed: the
\* IDs whose event lookup failed; setFailed: its CacheTrending ran and the
\* Redis Set failed.
NoTrending ==
    [called |-> FALSE, lat |-> 0, lon |-> 0, limit |-> 0, articles |-> <<>>, err |-> FALSE,
     hadLiveEntry |-> FALSE, cacheRead |-> FALSE, storageQueries |-> 0, scores |-> <<>>,
     cached |-> FALSE, at |-> 0, candidates |-> <<>>, failed |-> {}, setFailed |-> FALSE]

\* load before any LoadFromJSON call.
NoLoad ==
    [pc |-> "idle", file |-> <<>>, next |-> 1, wg |-> 0, mu |-> <<0, "free">>,
     completedCount |-> 0, articles |-> <<>>, w |-> <<>>, err |-> FALSE]

\* reply before any ProcessArticleQuery call.  stage: "none", "executing"
\* (Execute has been called) or "returned".
NoReply == [stage |-> "none", articles |-> <<>>, err |-> FALSE]

\* lastInsert before any Insert or BulkInsert call.  added: the rows the call
\* persisted.
NoInsert ==
    [called |-> FALSE, op |-> "none", batch |-> <<>>, err |-> FALSE,
     stats |-> [nil |-> TRUE, TotalArticles |-> 0, SuccessCount |-> 0, ErrorCount |-> 0,
                ValidationErrors |-> <<>>],
     added |-> {}]

\* lastGet before any GetCachedTrending call.  corrupt: the call read a payload
\* that json.Unmarshal rejected; afterCorrupt: the handler call just before it
\* was a GetCachedTrending of the same key that read such a payload.
NoGet ==
    [called |-> FALSE, lat |-> 0, lon |-> 0, limit |-> 0, articles |-> <<>>, found |-> FALSE,
     redisErr |-> FALSE, at |-> 0, corrupt |-> FALSE, afterCorrupt |-> FALSE]

ChainInit ==
    /\ db \in Corpora
    /\ pc = "idle"
    /\ req = [intents |-> <<>>, entities |-> <<>>, location |-> NoLocation]
    /\ filters = <<>>
    /\ idx = 1
    /\ articles = <<>>
    /\ result = NoResult
    /\ trace = <<>>
    /\ now = 0
    /\ userEvents = NoEvents
    /\ cache = {}
    /\ lastTrending = NoTrending
    /\ lastGet = NoGet
    /\ served = 0
    /\ load = NoLoad
    /\ lastInsert = NoInsert
    /\ reply = NoReply
    /\ cancelled = FALSE

ChainNext == Execute \/ ChainStep \/ ChainReturn

ChainSpec == ChainInit /\ [][ChainNext]_vars

--------------------------------------------------------------------------
(* A single filter called on an arbitrary slice of candidates *)

MaxCandidates == 3

\* Slices of distinct articles, as a caller may hand them to a filter.
CandidateSlices ==
    {s \in SeqsUpTo(Corpus, MaxCandidates) : \A i, j \in 1..Len(s) : i # j => s[i] # s[j]}

\* The filters Execute can build from the model's requests.
\* and a radius filter whose latitude alone is 0.
FilterSamples ==
    UNION {Range(BuildFilters(<<i>>, e)) : i \in IntentValues, e \in EntityLists}
    \cup {MkFilter("radius", "intent", <<>>, 0, PZ[1], PZ[2], 50)}

\* The call filter(ctx, &in) of the filter filters[1] on the slice articles.
ApplyFilter ==
    /\ pc = "filter"
    /\ \E o \in FilterOutcomes(db, filters[1], articles) :
          /\ trace' = <<[filter |-> filters[1], in |-> articles, out |-> o.out,
                         err |-> o.err, queried |-> o.queried, embedded |-> o.embedded,
                         vector |-> o.vector]>>
          /\ result' = [articles |-> o.out, err |-> o.err]
    /\ pc' = "done"
    /\ UNCHANGED <<db, req, filters, idx, articles, now, userEvents, cache, lastTrending, lastGet, served, load, lastInsert,
                   reply, cancelled>>

FilterInit ==
    /\ db \in Corpora
    /\ pc = "filter"
    /\ req = [intents |-> <<>>, entities |-> <<>>, location |-> NoLocation]
    /\ filters \in {<<f>> : f \in FilterSamples}
    /\ idx = 1
    /\ articles \in CandidateSlices
    /\ result = NoResult
    /\ trace = <<>>
    /\ now = 0
    /\ userEvents = NoEvents
    /\ cache = {}
    /\ lastTrending = NoTrending
    /\ lastGet = NoGet
    /\ served = 0
    /\ load = NoLoad
    /\ lastInsert = NoInsert
    /\ reply = NoReply
    /\ cancelled = FALSE

FilterNext == ApplyFilter

FilterSpec == FilterInit /\ [][FilterNext]_vars

--------------------------------------------------------------------------
(* Claims about the filter pipeline *)

\* Execute has built a pipeline (it did not return FindAll's result).
BuiltPipeline ==
    pc \in {"chain", "done"} /\
    ~(Len(req.intents) = 0 /\ Len(req.entities) = 0 /\ ~req.location.present)

\* The predicate of a stage, as the claim lists them.
StagePredicate(a, f) ==
    CASE f.kind = "category" ->
            Len(f.strs) = 0 \/ a.Category \cap Range(f.strs) # {}
      [] f.kind = "source" ->
            Len(f.strs) = 0 \/ \E x \in Range(f.strs) : ILike(a.SourceName, x)
      [] f.kind = "radius" ->
            (f.lat = 0 /\ f.lon = 0) \/
            haversineDistance(f.lat, f.lon, a.Latitude, a.Longitude) <= f.radius
      [] f.kind = "score" -> a.RelevanceScore >= f.threshold
      [] OTHER -> TRUE

\* C1: every article Execute returns from a built pipeline satisfies the
\* predicate of every stage that ran (requested category, requested source,
\* within the radius, relevance score at or above the threshold).
C1_ResultSatisfiesEveryStage ==
    (BuiltPipeline /\ pc = "done" /\ ~result.err) =>
        \A a \in Range(result.articles) : \A k \in 1..Len(trace) :
            StagePredicate(a, trace[k].filter)

\* C2: a filter called on a non-empty slice runs no storage query and
\* returns only articles of its input.
C2_NonEmptyInputIsFilteredInMemory ==
    \A k \in 1..Len(trace) :
        Len(trace[k].in) > 0 =>
            ~trace[k].queried /\ Range(trace[k].out) \subseteq Range(trace[k].in)

\* A filter has dropped some, but not all, of a non-empty input.
C2_Witness ==
    \E k \in 1..Len(trace) :
        /\ Len(trace[k].in) >= 2
        /\ Len(trace[k].out) > 0
        /\ Len(trace[k].out) < Len(trace[k].in)

\* C3: every built pipeline that completes ran ScoreFilter(0.7) as its last
\* stage.
C3_LastStageIsScoreFloor70 ==
    (BuiltPipeline /\ pc = "done" /\ ~result.err) =>
        /\ Len(trace) > 0
        /\ trace[Len(trace)].filter.kind = "score"
        /\ trace[Len(trace)].filter.threshold = 70

\* C4: given at least one entity, the pipeline holds a text-similarity stage
\* over the entities, after every intent-derived stage and immediately
\* before the trailing score stage.
C4_EntitiesStageBeforeTrailingScore ==
    (BuiltPipeline /\ Len(req.entities) > 0) =>
        \E k \in 1..(Len(filters) - 1) :
            /\ k = Len(filters) - 1
            /\ filters[k].kind = "text"
            /\ filters[k].strs = req.entities
            /\ filters[k + 1].kind = "score"
            /\ \A j \in 1..Len(filters) : filters[j].origin = "intent" => j < k

\* C5: with no intents, no entities and no location, Execute returns what
\* FindAll returns (articles, order, error) and runs no filter stage.
C5_EmptyRequestReturnsFindAll ==
    (pc = "done" /\ Len(req.intents) = 0 /\ Len(req.entities) = 0 /\ ~req.location.present) =>
        /\ [rows |-> result.articles, err |-> result.err] \in FindAll(db)
        /\ filters = <<>>
        /\ trace = <<>>

\* The empty request has returned several articles.
C5_Witness ==
    /\ pc = "done"
    /\ Len(req.intents) = 0 /\ Len(req.entities) = 0 /\ ~req.location.present
    /\ Len(result.articles) >= 2

\* C6: a nearby intent with no Location contributes no radius stage.
C6_NearbyWithoutLocationAddsNoRadiusStage ==
    (BuiltPipeline /\ ~req.location.present) =>
        \A k \in 1..Len(filters) : filters[k].kind # "radius"

\* C7: a failing stage is the last stage called, and Execute returns an error
\* and no articles.
C7_StageFailureAbortsChain ==
    \A k \in 1..Len(trace) :
        trace[k].err =>
            /\ k = Len(trace)
            /\ pc = "done"
            /\ result.err
            /\ result.articles = <<>>

\* A stage has failed on a non-empty, already narrowed slice.
C7_Witness ==
    /\ pc = "done"
    /\ Len(trace) >= 2
    /\ trace[Len(trace)].err
    /\ Len(trace[Len(trace)].in) > 0

--------------------------------------------------------------------------
(* Trending: the score *)

\* A score is kept exactly: n / d with d > 0, or +Inf (a float division of 1
\* by 0).
Ratio(n, d) == IF d = 0 THEN [inf |-> TRUE, n |-> 1, d |-> 1]
               ELSE IF d < 0 THEN [inf |-> FALSE, n |-> -n, d |-> -d]
               ELSE [inf |-> FALSE, n |-> n, d |-> d]

\* 0 <= x <= 1
InUnitInterval(x) == ~x.inf /\ x.n >= 0 /\ x.n <= x.d

\* a/b > c/d for b, d > 0, by comparing integer parts and then the inverted
\* remainders (products of numerators and denominators are never formed).
RECURSIVE FractionGreater(_, _, _, _)
FractionGreater(a, b, c, d) ==
    IF a \div b # c \div d THEN a \div b > c \div d
    ELSE IF a % b = 0 THEN FALSE
    ELSE IF c % d = 0 THEN TRUE
    ELSE FractionGreater(d, c % d, b, a % b)

\* x > y on float64 values
RatioGreater(x, y) ==
    IF x.inf THEN ~y.inf
    ELSE IF y.inf THEN FALSE
    ELSE FractionGreater(x.n, x.d, y.n, y.d)

\* math.Min(float64(eventCount)/100.0, 1.0)
computeVolumeScore(eventCount) == Ratio(Min(eventCount, 100), 100)

\* 1.0 / (1.0 + ageDays), ageDays = articleAge.Hours() / 24.0; the age is in
\* quarter days here, so this is 4 / (4 + age).
computeRecencyScore(articleAge) == Ratio(4, 4 + articleAge)

\* 1.0 / (1.0 + distanceKm/10.0) = 10 / (10 + distanceKm)
computeGeoScore(distanceKm) == Ratio(10, 10 + distanceKm)

\* (volumeScore * 0.4) + (recencyScore * 0.4) + (geoScore * 0.2)
\*   = (2*v.n/v.d + 2*r.n/r.d + g.n/g.d) / 5
WeightedScore(v, r, g) ==
    IF v.inf \/ r.inf \/ g.inf THEN Ratio(1, 0)
    ELSE Ratio(2 * v.n * r.d * g.d + 2 * r.n * v.d * g.d + g.n * v.d * r.d,
               5 * v.d * r.d * g.d)

\* The events table: userEvents[id][t] is the number of rows of article id
\* with timestamp t.
WindowStart == 28     \* 7 * 24 hours, in quarter days

EventsSince(events, id, since) ==
    LET times == {t \in DOMAIN events[id] : t >= since}
        RECURSIVE Sum(_)
        Sum(T) == IF T = {} THEN 0
                  ELSE LET t == CHOOSE x \in T : TRUE IN events[id][t] + Sum(T \ {t})
    IN  Sum(times)

\* ComputeTrendingScore once FindByArticleID has returned its rows.
ComputeTrendingScore(article, location, events, clock) ==
    LET count == EventsSince(events, article.ID, clock - WindowStart)
        articleAge == clock - article.PublicationDate
        distance == haversineDistance(article.Latitude, article.Longitude,
                                      location[1], location[2])
        volumeScore == computeVolumeScore(count)
        recencyScore == computeRecencyScore(articleAge)
        geoScore == computeGeoScore(distance)
    IN  [ID |-> article.ID, eventCount |-> count, articleAge |-> articleAge,
         distance |-> distance, volumeScore |-> volumeScore,
         recencyScore |-> recencyScore, geoScore |-> geoScore,
         trendingScore |-> WeightedScore(volumeScore, recencyScore, geoScore)]

--------------------------------------------------------------------------
(* Trending: the cache *)

cacheTTL == 2

\* math.Round(x * 100) for a coordinate x (half away from zero).
RoundHundredths(x) ==
    IF x >= 0 THEN (x + 50) \div 100 ELSE -((-x + 50) \div 100)

\* "trending:%.2f:%.2f:%d"
generateCacheKey(lat, lon, limit) == <<RoundHundredths(lat), RoundHundredths(lon), limit>>

\* json.Marshal of an Article: DescriptionVector is tagged json:"-", and
\* PublicationDate is written by time.Time.MarshalJSON, in RFC 3339, which
\* ends in a zone designator ("Z" or an offset).
MarshalArticle(a) ==
    [ID |-> a.ID, Category |-> a.Category, SourceName |-> a.SourceName,
     RelevanceScore |-> a.RelevanceScore, Latitude |-> a.Latitude,
     Longitude |-> a.Longitude,
     publication_date |-> [t |-> a.PublicationDate, zone |-> TRUE]]

Marshal(list) == [ok |-> TRUE, items |-> [i \in 1..Len(list) |-> MarshalArticle(list[i])]]

\* time.Parse("2006-01-02T15:04:05", s): the layout has no zone, so a string
\* with a zone designator is rejected ("extra text").
ParsePublicationDate(s) ==
    IF s.zone THEN [err |-> TRUE, t |-> 0] ELSE [err |-> FALSE, t |-> s.t]

\* Article.UnmarshalJSON on one element.
UnmarshalArticle(j) ==
    LET parsed == ParsePublicationDate(j.publication_date)
    IN  [err |-> parsed.err,
         article |-> [ID |-> j.ID, Category |-> j.Category, SourceName |-> j.SourceName,
                      RelevanceScore |-> j.RelevanceScore, Latitude |-> j.Latitude,
                      Longitude |-> j.Longitude, PublicationDate |-> parsed.t,
                      DescriptionVector |-> <<>>]]

\* json.Unmarshal of a payload into []Article.
Unmarshal(payload) ==
    IF ~payload.ok \/ \E i \in 1..Len(payload.items) : UnmarshalArticle(payload.items[i]).err
    THEN [err |-> TRUE, articles |-> <<>>]
    ELSE [err |-> FALSE,
          articles |-> [i \in 1..Len(payload.items) |-> UnmarshalArticle(payload.items[i]).article]]

\* A keyspace that never expires an entry.
LiveForever(keyspace, clock) == keyspace

\* The entries of the keyspace that have not expired.
Live(keyspace, clock) == {e \in keyspace : clock < e.expires}

\* redisClient.Set(key, data, ttl)
RedisSet(keyspace, key, data, clock) ==
    {e \in keyspace : e.key # key} \cup {[key |-> key, payload |-> data, expires |-> clock + cacheTTL]}

\* A Del that removes nothing.
RedisDelNothing(keyspace, key) == keyspace

\* redisClient.Del(key)
RedisDel(keyspace, key) == {e \in keyspace : e.key # key}

\* A CacheTrending that removes the key when Set fails.
CacheTrendingDroppingKeyOnFailure(keyspace, lat, lon, list, clock, setOk) ==
    LET cacheKey == generateCacheKey(lat, lon, Len(list))
    IN  IF setOk THEN RedisSet(keyspace, cacheKey, Marshal(list), clock)
        ELSE RedisDel(keyspace, cacheKey)

\* CacheTrending: the keyspace after the call; setOk says whether Set succeeded.
CacheTrending(keyspace, lat, lon, list, clock, setOk) ==
    LET cacheKey == generateCacheKey(lat, lon, Len(list))
    IN  IF setOk THEN RedisSet(keyspace, cacheKey, Marshal(list), clock) ELSE keyspace

--------------------------------------------------------------------------
(* Trending: the handlers *)

\* An article dated after every clock value of the model.
A5 == Article("a5", {Tech}, Reuters, 60, PT, 6, <<1, 0>>)

TrendingCorpora == {{A1, A2}, {A1, A2, A4}, {A1, A5}}

\* The user_events tables the model starts from.
EventTables ==
    { NoEvents,
      [NoEvents EXCEPT !["a1"][-1] = 1, !["a2"][-1] = 200],
      [NoEvents EXCEPT !["a1"][OldTime] = 150, !["a2"][-1] = 99, !["a4"][-1] = 100,
                       !["a5"][-1] = 1] }

\* The coordinates of trending requests.
TrendingPoints == {PM, PM2}

MaxRecorded == 1     \* interactions recorded during a run
MaxServed == 2       \* trending handler calls during a run

\* An id query that returns every article id the table of events knows,
\* with or without rows.
GetArticlesFromAllIDs(events) == DOMAIN events

\* userEventRepository.GetArticlesFromUserEvents: SELECT DISTINCT article_id.
GetArticlesFromUserEvents(events) ==
    {id \in DOMAIN events : \E t \in DOMAIN events[id] : events[id][t] > 0}

\* articleRepository.FindByIDs.
FindByIDs(table, ids) ==
    LET Leq(x, y) == x.PublicationDate >= y.PublicationDate
    IN  QueryOutcomes({a \in table : a.ID \in ids},
                      {p \in ScannedPairs(table) : Leq(p[1], p[2])})

\* A scoring loop that gives up at the first failed event lookup.
ScoreAllAbortingOnFailure(rows, failing, location, events, clock) ==
    IF \E i \in 1..Len(rows) : rows[i].ID \in failing
    THEN <<>>
    ELSE [i \in 1..Len(rows) |->
            [article |-> rows[i],
             score |-> ComputeTrendingScore(rows[i], location, events, clock)]]

\* The scoring loop of GetTrendingNews over the rows, skipping the articles
\* whose event lookup fails.
ScoreAll(rows, failing, location, events, clock) ==
    LET Scored(a) == a.ID \notin failing
        kept == SelectSeq(rows, Scored)
    IN  [i \in 1..Len(kept) |->
            [article |-> kept[i],
             score |-> ComputeTrendingScore(kept[i], location, events, clock)]]

SortByScore(articlesWithScores) ==
    LET before == {p \in Range(articlesWithScores) \X Range(articlesWithScores) :
                      RatioGreater(p[1].score.trendingScore, p[2].score.trendingScore)}
    IN  sortSlice(articlesWithScores, before)

\* A cut that keeps the last limit elements.
TruncateKeepingTail(s, limit) ==
    IF Len(s) > limit THEN SubSeq(s, Len(s) - limit + 1, Len(s)) ELSE s

\* articlesWithScores[:limit] when the slice is longer than limit.
Truncate(s, limit) == IF Len(s) > limit THEN SubSeq(s, 1, limit) ELSE s

\* articleService.GetTrendingNews.
GetTrendingNews ==
    /\ served < MaxServed
    /\ \E p \in TrendingPoints, limit \in 1..MaxLimit :
          LET ids == GetArticlesFromUserEvents(userEvents)
              base == [called |-> TRUE, lat |-> p[1], lon |-> p[2], limit |-> limit,
                       articles |-> <<>>, err |-> FALSE,
                       hadLiveEntry |-> \E e \in Live(cache, now) :
                                           e.key = generateCacheKey(p[1], p[2], limit),
                       cacheRead |-> FALSE, storageQueries |-> 1, scores |-> <<>>,
                       cached |-> FALSE, at |-> now, candidates |-> <<>>, failed |-> {},
                       setFailed |-> FALSE]
          IN  \/ /\ lastTrending' = [base EXCEPT !.err = TRUE]     \* the id query fails
                 /\ cache' = cache
              \/ /\ ids = {}
                 /\ lastTrending' = base
                 /\ cache' = cache
              \/ /\ ids # {}
                 /\ \E found \in FindByIDs(db, ids) :
                       IF found.err
                       THEN /\ lastTrending' = [base EXCEPT !.err = TRUE, !.storageQueries = 2]
                            /\ cache' = cache
                       ELSE \E failing \in SUBSET {found.rows[i].ID : i \in 1..Len(found.rows)},
                               setOk \in BOOLEAN :
                               LET scored == ScoreAll(found.rows, failing, p, userEvents, now)
                                   top == Truncate(SortByScore(scored), limit)
                                   trendingArticles == [i \in 1..Len(top) |-> top[i].article]
                               IN  /\ cache' = CacheTrending(cache, p[1], p[2],
                                                             trendingArticles, now, setOk)
                                   /\ lastTrending' =
                                        [base EXCEPT
                                           !.articles = trendingArticles,
                                           !.storageQueries = 2 + Len(found.rows),
                                           !.scores = [i \in 1..Len(scored) |-> scored[i].score],
                                           !.cached = setOk,
                                           !.candidates =
                                               [i \in 1..Len(found.rows) |-> found.rows[i].ID],
                                           !.failed = failing,
                                           !.setFailed = ~setOk]
    /\ lastGet' = NoGet
    /\ served' = served + 1
    /\ UNCHANGED <<db, pc, req, filters, idx, articles, result, trace, now, userEvents,
                   load, lastInsert, reply, cancelled>>

\* trendingService.GetCachedTrending.
GetCachedTrending ==
    /\ served < MaxServed
    /\ served' = served + 1
    /\ \E p \in TrendingPoints, limit \in 1..MaxLimit :
          LET cacheKey == generateCacheKey(p[1], p[2], limit)
              hits == {e \in Live(cache, now) : e.key = cacheKey}
              miss == [called |-> TRUE, lat |-> p[1], lon |-> p[2], limit |-> limit,
                       articles |-> <<>>, found |-> FALSE, redisErr |-> FALSE, at |-> now,
                       corrupt |-> FALSE,
                       afterCorrupt |-> /\ lastGet.called /\ lastGet.corrupt
                                        /\ generateCacheKey(lastGet.lat, lastGet.lon,
                                                            lastGet.limit) = cacheKey]
          IN  \/ /\ lastGet' = [miss EXCEPT !.redisErr = TRUE]    \* Get fails
                 /\ cache' = cache
              \/ /\ hits = {}                                      \* redis.Nil
                 /\ lastGet' = miss
                 /\ cache' = cache
              \/ \E e \in hits :
                    LET parsed == Unmarshal(e.payload)
                    IN  IF parsed.err
                        THEN /\ cache' = RedisDel(cache, cacheKey)
                             /\ lastGet' = [miss EXCEPT !.corrupt = TRUE]
                        ELSE /\ cache' = cache
                             /\ lastGet' = [miss EXCEPT !.found = TRUE,
                                                        !.articles = parsed.articles]
    /\ UNCHANGED <<db, pc, req, filters, idx, articles, result, trace, now, userEvents,
                   lastTrending, load, lastInsert, reply, cancelled>>

\* The bodies of the interaction requests.
InteractionRequests ==
    { [userID |-> "u1", articleID |-> "a1", eventType |-> "click"],
      [userID |-> "u1", articleID |-> "a1", eventType |-> "view"],
      [userID |-> "", articleID |-> "a1", eventType |-> "view"],
      [userID |-> "u1", articleID |-> "", eventType |-> "view"],
      [userID |-> "u1", articleID |-> "a1", eventType |-> "share"] }

\* UserInteractionController.RecordInteraction: the validations, then
\* userEventRepo.Create with Timestamp time.Now().
RecordInteraction ==
    /\ \E r \in InteractionRequests, createOk \in BOOLEAN :
          IF r.userID = "" \/ r.articleID = "" \/ r.eventType = ""
             \/ (r.eventType # "view" /\ r.eventType # "click") \/ ~createOk
          THEN userEvents' = userEvents
          ELSE /\ \A id \in ArticleIDs : EventsSince(userEvents, id, 0) < MaxRecorded
               /\ userEvents' = [userEvents EXCEPT ![r.articleID][now] = @ + 1]
    /\ UNCHANGED <<db, pc, req, filters, idx, articles, result, trace, now, cache,
                   lastTrending, lastGet, served, load, lastInsert, reply, cancelled>>

\* The passing of time.
Tick ==
    /\ now < MaxNow
    /\ now' = now + 1
    /\ UNCHANGED <<db, pc, req, filters, idx, articles, result, trace, userEvents, cache,
                   lastTrending, lastGet, served, load, lastInsert, reply, cancelled>>

TrendingInit ==
    /\ db \in TrendingCorpora
    /\ pc = "idle"
    /\ req = [intents |-> <<>>, entities |-> <<>>, location |-> NoLocation]
    /\ filters = <<>>
    /\ idx = 1
    /\ articles = <<>>
    /\ result = NoResult
    /\ trace = <<>>
    /\ now = 0
    /\ userEvents \in EventTables
    /\ cache = {}
    /\ lastTrending = NoTrending
    /\ lastGet = NoGet
    /\ served = 0
    /\ load = NoLoad
    /\ lastInsert = NoInsert
    /\ reply = NoReply
    /\ cancelled = FALSE

TrendingNext == GetTrendingNews \/ GetCachedTrending \/ RecordInteraction \/ Tick

TrendingSpec == TrendingInit /\ [][TrendingNext]_vars

--------------------------------------------------------------------------
(* Claims about the trending cache and the trending score *)

\* C8: once a trending request at (lat, lon) with limit L has stored its
\* result with CacheTrending, a GetCachedTrending at coordinates that round
\* to the same two decimals, with the same limit L, before the TTL elapses,
\* with no Redis failure and no write to the key in between, is a hit that
\* returns the stored list, whatever L and the length of the stored list.
C8_GetAfterPutIsHit ==
    (/\ lastTrending.called
     /\ lastTrending.cached
     /\ lastGet.called
     /\ ~lastGet.redisErr
     /\ lastGet.limit = lastTrending.limit
     /\ RoundHundredths(lastGet.lat) = RoundHundredths(lastTrending.lat)
     /\ RoundHundredths(lastGet.lon) = RoundHundredths(lastTrending.lon)
     /\ lastGet.at < lastTrending.at + cacheTTL)
    => (lastGet.found /\ lastGet.articles = lastTrending.articles)

\* C9: a trending request whose cache key holds a live entry reads the cache,
\* runs no storage query and computes no score.
C9_LiveEntryIsServedFromCache ==
    (lastTrending.called /\ lastTrending.hadLiveEntry)
    => (/\ lastTrending.cacheRead
        /\ lastTrending.storageQueries = 0
        /\ lastTrending.scores = <<>>)

\* C10: every score ComputeTrendingScore returns is in [0,1], and so is each
\* of its volume, recency and geo components, including for an article
\* published after the current time.
C10_ScoresInUnitInterval ==
    \A i \in 1..Len(lastTrending.scores) :
        /\ InUnitInterval(lastTrending.scores[i].volumeScore)
        /\ InUnitInterval(lastTrending.scores[i].recencyScore)
        /\ InUnitInterval(lastTrending.scores[i].geoScore)
        /\ InUnitInterval(lastTrending.scores[i].trendingScore)

--------------------------------------------------------------------------
(* ComputeTrendingScore on two articles of the same age at the same distance *)

\* Two articles published at the same time at places equally far from the
\* request points, and two such articles dated after the clock of the model.
S1 == Article("a1", {Tech}, Reuters, 90, PM, -4, <<1, 0>>)
S2 == Article("a2", {Tech}, BBCNews, 90, PM2, -4, <<0, 1>>)
F1 == Article("a4", {Tech}, Reuters, 90, PT, 6, <<1, 0>>)
F2 == Article("a5", {Tech}, BBCNews, 90, PT, 6, <<0, 1>>)

ScoreCorpora == {{S1, S2}, {F1, F2}}

ScoreEventTables ==
    EventTables \cup
    { [NoEvents EXCEPT !["a2"][-1] = 200, !["a5"][-1] = 200],
      [NoEvents EXCEPT !["a1"][-1] = 100, !["a2"][-1] = 200,
                       !["a4"][-1] = 100, !["a5"][-1] = 200] }

\* ComputeTrendingScore called on two articles for one request location, as
\* the scoring loop of GetTrendingNews calls it.
ScorePair ==
    /\ pc = "score"
    /\ \E a \in db, b \in db, p \in {PM, PT} :
          lastTrending' =
              [NoTrending EXCEPT
                 !.called = TRUE, !.lat = p[1], !.lon = p[2], !.at = now,
                 !.candidates = <<a.ID, b.ID>>,
                 !.scores = <<ComputeTrendingScore(a, p, userEvents, now),
                              ComputeTrendingScore(b, p, userEvents, now)>>]
    /\ UNCHANGED <<db, pc, req, filters, idx, articles, result, trace, now, userEvents,
                   cache, lastGet, served, load, lastInsert, reply, cancelled>>

ScoreInit ==
    /\ db \in ScoreCorpora
    /\ pc = "score"
    /\ req = [intents |-> <<>>, entities |-> <<>>, location |-> NoLocation]
    /\ filters = <<>>
    /\ idx = 1
    /\ articles = <<>>
    /\ result = NoResult
    /\ trace = <<>>
    /\ now = 0
    /\ userEvents \in ScoreEventTables
    /\ cache = {}
    /\ lastTrending = NoTrending
    /\ lastGet = NoGet
    /\ served = 0
    /\ load = NoLoad
    /\ lastInsert = NoInsert
    /\ reply = NoReply
    /\ cancelled = FALSE

ScoreNext == ScorePair \/ RecordInteraction \/ Tick

ScoreSpec == ScoreInit /\ [][ScoreNext]_vars

\* C11: of two articles with the same age and the same distance to the
\* reference location, the one with more events in the 7-day window never
\* has the lower composite score, and has the strictly higher one when the
\* smaller count is below 100.
C11_MoreEventsRankHigher ==
    \A i, j \in 1..Len(lastTrending.scores) :
        LET x == lastTrending.scores[i]
            y == lastTrending.scores[j]
        IN  (/\ x.articleAge = y.articleAge
             /\ x.distance = y.distance
             /\ x.eventCount > y.eventCount)
            => (/\ ~RatioGreater(y.trendingScore, x.trendingScore)
                /\ y.eventCount < 100 => RatioGreater(x.trendingScore, y.trendingScore))

\* The same, for articles whose recency score is finite.
C11_MoreEventsRankHigherWhenFinite ==
    \A i, j \in 1..Len(lastTrending.scores) :
        LET x == lastTrending.scores[i]
            y == lastTrending.scores[j]
        IN  (/\ x.articleAge = y.articleAge
             /\ x.distance = y.distance
             /\ x.eventCount > y.eventCount
             /\ ~x.recencyScore.inf)
            => (/\ ~RatioGreater(y.trendingScore, x.trendingScore)
                /\ y.eventCount < 100 => RatioGreater(x.trendingScore, y.trendingScore))

--------------------------------------------------------------------------
(* Claims about GetTrendingNews *)

ScoredIDs == {lastTrending.scores[i].ID : i \in 1..Len(lastTrending.scores)}

ReturnedIDs == {lastTrending.articles[i].ID : i \in 1..Len(lastTrending.articles)}

\* The composite score GetTrendingNews computed for the article id.
ScoreOf(id) ==
    (CHOOSE x \in Range(lastTrending.scores) : x.ID = id).trendingScore

\* C12: in GetTrendingNews an article whose event lookup fails is left out of
\* the result, every other candidate is still scored and is returned when
\* the limit leaves room, and the request returns no error.
C12_FailedLookupDropsOnlyThatArticle ==
    (lastTrending.called /\ lastTrending.failed # {})
    => LET others == Range(lastTrending.candidates) \ lastTrending.failed
       IN  /\ ~lastTrending.err
           /\ lastTrending.failed \cap ReturnedIDs = {}
           /\ ScoredIDs = others
           /\ ReturnedIDs \subseteq others
           /\ Cardinality(others) <= lastTrending.limit => ReturnedIDs = others

C12_Witness ==
    /\ lastTrending.called
    /\ lastTrending.failed # {}
    /\ Len(lastTrending.articles) > 0

\* C13: the list GetTrendingNews computes is in non-increasing order of
\* composite score, holds at most limit articles, and is the top-limit
\* prefix of the successfully scored candidates.
C13_ResultIsTopLimitByScore ==
    (lastTrending.called /\ ~lastTrending.err /\ lastTrending.limit > 0)
    => LET arts == lastTrending.articles
       IN  /\ Len(arts) = Min(lastTrending.limit, Len(lastTrending.scores))
           /\ ReturnedIDs \subseteq ScoredIDs
           /\ \A i, j \in 1..Len(arts) : i # j => arts[i].ID # arts[j].ID
           /\ \A i, j \in 1..Len(arts) :
                 i < j => ~RatioGreater(ScoreOf(arts[j].ID), ScoreOf(arts[i].ID))
           /\ \A id \in ScoredIDs \ ReturnedIDs : \A i \in 1..Len(arts) :
                 ~RatioGreater(ScoreOf(id), ScoreOf(arts[i].ID))

\* More candidates were scored than the limit allows, and the best one was
\* not the first row fetched.
C13_Witness ==
    /\ lastTrending.called
    /\ ~lastTrending.err
    /\ lastTrending.limit > 0
    /\ Len(lastTrending.scores) > lastTrending.limit
    /\ lastTrending.articles[1].ID # lastTrending.scores[1].ID

\* C15: when the Redis Set inside CacheTrending fails, GetTrendingNews still
\* returns the articles it computed, with no error, and the cache content is
\* what it was before the call.
C15_FailedCacheWriteIsHarmless ==
    [][(served' # served /\ ~lastGet'.called /\ lastTrending'.setFailed)
       => (/\ cache' = cache
           /\ ~lastTrending'.err
           /\ Len(lastTrending'.articles)
                 = Min(lastTrending'.limit, Len(lastTrending'.scores))
           /\ \A i \in 1..Len(lastTrending'.articles) :
                 \E k \in 1..Len(lastTrending'.scores) :
                    lastTrending'.scores[k].ID = lastTrending'.articles[i].ID)]_vars

\* A failed write of a non-empty result while the cache holds an entry.
C15_Witness ==
    /\ lastTrending.called
    /\ lastTrending.setFailed
    /\ Len(lastTrending.articles) > 0
    /\ \E e \in cache : e.key = generateCacheKey(lastTrending.lat, lastTrending.lon,
                                                 Len(lastTrending.articles))

--------------------------------------------------------------------------
(* The trending cache read against keyspaces that already hold entries *)

\* Keyspaces found at start-up: empty; an entry CacheTrending wrote; an entry
\* whose bytes are no JSON; an entry whose dates carry no zone designator.
CacheSamples ==
    { {},
      {[key |-> generateCacheKey(PM[1], PM[2], 1), payload |-> Marshal(<<Scan(A1)>>),
        expires |-> cacheTTL]},
      {[key |-> generateCacheKey(PM[1], PM[2], 1), payload |-> [ok |-> FALSE, items |-> <<>>],
        expires |-> cacheTTL]},
      {[key |-> generateCacheKey(PM[1], PM[2], 1),
        payload |-> [ok |-> TRUE,
                     items |-> <<[MarshalArticle(Scan(A1)) EXCEPT
                                    !.publication_date = [t |-> -4, zone |-> FALSE]]>>],
        expires |-> cacheTTL]} }

CacheInit ==
    /\ db = {A1, A2}
    /\ pc = "idle"
    /\ req = [intents |-> <<>>, entities |-> <<>>, location |-> NoLocation]
    /\ filters = <<>>
    /\ idx = 1
    /\ articles = <<>>
    /\ result = NoResult
    /\ trace = <<>>
    /\ now = 0
    /\ userEvents = [NoEvents EXCEPT !["a1"][-1] = 1, !["a2"][-1] = 200]
    /\ cache \in CacheSamples
    /\ lastTrending = NoTrending
    /\ lastGet = NoGet
    /\ served = 0
    /\ load = NoLoad
    /\ lastInsert = NoInsert
    /\ reply = NoReply
    /\ cancelled = FALSE

CacheNext == GetCachedTrending \/ GetTrendingNews \/ Tick

CacheSpec == CacheInit /\ [][CacheNext]_vars

--------------------------------------------------------------------------
(* Persistence: validateArticle, Insert, BulkInsert *)

\* The zero time.Time.
ZeroTime == -100000

\* An article as decoded from a request or a file: DescriptionVector is
\* tagged json:"-" and starts empty.
Doc(id, title, url, src, cats, score, lat, lon, pub, summary) ==
    [ID |-> id, Title |-> title, URL |-> url, SourceName |-> src, Category |-> cats,
     RelevanceScore |-> score, Latitude |-> lat, Longitude |-> lon,
     PublicationDate |-> pub, Summary |-> summary, DescriptionVector |-> <<>>]

\* validateArticle without the longitude check.
validateArticleSkippingLongitude(article, index) ==
    LET Msg(field) == <<[index |-> index, field |-> field]>>
    IN  (IF article.Title = "" THEN Msg("title") ELSE <<>>)
        \o (IF article.URL = "" THEN Msg("url") ELSE <<>>)
        \o (IF article.SourceName = <<>> THEN Msg("source_name") ELSE <<>>)
        \o (IF article.Category = {} THEN Msg("category") ELSE <<>>)
        \o (IF article.RelevanceScore < 0 \/ article.RelevanceScore > 100
            THEN Msg("relevance_score") ELSE <<>>)
        \o (IF article.Latitude < -900000 \/ article.Latitude > 900000
            THEN Msg("latitude") ELSE <<>>)
        \o (IF article.PublicationDate = ZeroTime THEN Msg("publication_date") ELSE <<>>)

\* articleRepository.validateArticle: the messages, in the order of the checks.
validateArticle(article, index) ==
    LET Msg(field) == <<[index |-> index, field |-> field]>>
    IN  (IF article.Title = "" THEN Msg("title") ELSE <<>>)
        \o (IF article.URL = "" THEN Msg("url") ELSE <<>>)
        \o (IF article.SourceName = <<>> THEN Msg("source_name") ELSE <<>>)
        \o (IF article.Category = {} THEN Msg("category") ELSE <<>>)
        \o (IF article.RelevanceScore < 0 \/ article.RelevanceScore > 100
            THEN Msg("relevance_score") ELSE <<>>)
        \o (IF article.Latitude < -900000 \/ article.Latitude > 900000
            THEN Msg("latitude") ELSE <<>>)
        \o (IF article.Longitude < -1800000 \/ article.Longitude > 1800000
            THEN Msg("longitude") ELSE <<>>)
        \o (IF article.PublicationDate = ZeroTime THEN Msg("publication_date") ELSE <<>>)

\* The validation loop of BulkInsert: the messages of all articles, indices
\* counted from 0.
RECURSIVE ValidateAll(_, _)
ValidateAll(batch, i) ==
    IF i > Len(batch) THEN <<>>
    ELSE validateArticle(batch[i], i - 1) \o ValidateAll(batch, i + 1)

\* INSERT ... ON CONFLICT (id) DO NOTHING for the articles of the batch in
\* order: the rows added to the table.
RECURSIVE InsertedRows(_, _, _)
InsertedRows(table, batch, i) ==
    IF i > Len(batch) THEN {}
    ELSE IF \E r \in table : r.ID = batch[i].ID
         THEN InsertedRows(table, batch, i + 1)
         ELSE {batch[i]} \cup InsertedRows(table \cup {batch[i]}, batch, i + 1)

LoadStats(total, success, errors, messages) ==
    [nil |-> FALSE, TotalArticles |-> total, SuccessCount |-> success,
     ErrorCount |-> errors, ValidationErrors |-> messages]

NilStats ==
    [nil |-> TRUE, TotalArticles |-> 0, SuccessCount |-> 0, ErrorCount |-> 0,
     ValidationErrors |-> <<>>]

\* articleRepository.BulkInsert: the outcomes [added, stats, err] of a call.
\* A statement that fails aborts the transaction: the statements after it
\* fail too and nothing is persisted, whatever Commit replies.
BulkInsert(table, batch) ==
    LET messages == ValidateAll(batch, 1)
        n == Len(batch)
    IN  IF n = 0
        THEN {[added |-> {}, stats |-> LoadStats(0, 0, 0, <<>>), err |-> FALSE]}
        ELSE IF Len(messages) > 0
        THEN {[added |-> {}, stats |-> LoadStats(n, 0, 0, messages), err |-> TRUE]}
        ELSE {[added |-> InsertedRows(table, batch, 1),
               stats |-> LoadStats(n, n, 0, <<>>), err |-> FALSE],
              [added |-> {}, stats |-> NilStats, err |-> TRUE]}          \* Commit fails
             \cup {[added |-> {}, stats |-> LoadStats(n, k - 1, n - k + 1, <<>>),
                    err |-> FALSE] : k \in 1..n}                         \* statement k fails

\* articleRepository.Insert: the outcomes [added, err] of a call.
Insert(table, article) ==
    IF Len(validateArticle(article, 0)) > 0
    THEN {[added |-> {}, err |-> TRUE]}
    ELSE {[added |-> {}, err |-> TRUE]}                                  \* the statement fails
         \cup (IF \E r \in table : r.ID = article.ID
               THEN {}                                                    \* duplicate key
               ELSE {[added |-> {article}, err |-> FALSE]})

MaxBatch == 2        \* longest batch handed to BulkInsert

\* Articles as callers hand them over: valid ones, ones at the edges of the
\* ranges, and ones just outside each range.
D1 == Doc("d1", "t", "u", Reuters, {Tech}, 50, PM[1], PM[2], -4, "")
D2 == Doc("d2", "t", "u", Reuters, {Tech}, 0, -900000, 1800000, -8, "")
D3 == Doc("d3", "t", "u", BBCNews, {Sports}, 100, 900000, -1800000, 6, "s")

InsertSamples ==
    {D1, D2, D3,
     [D1 EXCEPT !.ID = "d4", !.RelevanceScore = 101],
     [D1 EXCEPT !.ID = "d5", !.RelevanceScore = -1],
     [D1 EXCEPT !.ID = "d6", !.Latitude = 900001],
     [D1 EXCEPT !.ID = "d7", !.Latitude = -900001],
     [D1 EXCEPT !.ID = "d8", !.Longitude = 1800001],
     [D1 EXCEPT !.ID = "d9", !.Longitude = -1800001],
     [D1 EXCEPT !.ID = "d10", !.Title = ""]}

\* A call of Insert.
InsertCall ==
    /\ \E article \in InsertSamples : \E o \in Insert(db, article) :
          /\ db' = db \cup o.added
          /\ lastInsert' = [called |-> TRUE, op |-> "Insert", batch |-> <<article>>,
                            err |-> o.err, stats |-> NilStats, added |-> o.added]
    /\ UNCHANGED <<pc, req, filters, idx, articles, result, trace, now, userEvents, cache,
                   lastTrending, lastGet, served, load, reply, cancelled>>

\* A call of BulkInsert.
BulkInsertCall ==
    /\ \E batch \in SeqsUpTo(InsertSamples, MaxBatch) : \E o \in BulkInsert(db, batch) :
          /\ db' = db \cup o.added
          /\ lastInsert' = [called |-> TRUE, op |-> "BulkInsert", batch |-> batch,
                            err |-> o.err, stats |-> o.stats, added |-> o.added]
    /\ UNCHANGED <<pc, req, filters, idx, articles, result, trace, now, userEvents, cache,
                   lastTrending, lastGet, served, load, reply, cancelled>>

InsertInit ==
    /\ db = {}
    /\ pc = "idle"
    /\ req = [intents |-> <<>>, entities |-> <<>>, location |-> NoLocation]
    /\ filters = <<>>
    /\ idx = 1
    /\ articles = <<>>
    /\ result = NoResult
    /\ trace = <<>>
    /\ now = 0
    /\ userEvents = NoEvents
    /\ cache = {}
    /\ lastTrending = NoTrending
    /\ lastGet = NoGet
    /\ served = 0
    /\ load = NoLoad
    /\ lastInsert = NoInsert
    /\ reply = NoReply
    /\ cancelled = FALSE

InsertNext == InsertCall \/ BulkInsertCall

InsertSpec == InsertInit /\ [][InsertNext]_vars

\* The three ranges of the claim.
InRanges(a) ==
    /\ a.RelevanceScore >= 0 /\ a.RelevanceScore <= 100
    /\ a.Latitude >= -900000 /\ a.Latitude <= 900000
    /\ a.Longitude >= -1800000 /\ a.Longitude <= 1800000

--------------------------------------------------------------------------
(* LoadFromJSON: the main goroutine and the 2N enrichment goroutines *)

MaxArticles == 2     \* most articles in a file handed to LoadFromJSON

Kinds == {"summary", "embedding"}

\* The goroutines started for a file of n articles: <<idx, kind>>.
Workers(n) == (1..n) \X Kinds

\* sync.Mutex: the holder, or Free.
Free == <<0, "free">>

\* A mutex that never blocks.
MutexAlwaysFree(mu) == TRUE

\* mu.Lock() returns only when no goroutine holds mu.
MutexFree(mu) == mu = Free

\* A Wait that returns without looking at the counter.
WaitReturnsAtOnce(wg) == TRUE

\* wg.Wait() returns only when the counter is 0.
WaitReturns(wg) == wg = 0

\* What the LLM answers for the article at idx.
SummaryText(i) == IF i = 1 THEN "s1" ELSE IF i = 2 THEN "s2" ELSE "s3"
EmbeddingVector(i) == <<i, 1>>

\* llmService.GenerateSummary: a failed call is logged and ("", nil) returned.
GenerateSummary(i, ok) ==
    [summary |-> IF ok THEN SummaryText(i) ELSE "", vector |-> <<>>, err |-> FALSE]

\* llmService.GenerateEmbedding: a failed call returns (nil, err).
GenerateEmbedding(i, ok) ==
    [summary |-> "", vector |-> IF ok THEN EmbeddingVector(i) ELSE <<>>, err |-> ~ok]

\* A write that empties both enrichment fields when the call failed.
WriteFieldClearingArticle(article, kind, ret) ==
    IF ret.err THEN [article EXCEPT !.Summary = "", !.DescriptionVector = <<>>]
    ELSE IF kind = "summary" THEN [article EXCEPT !.Summary = ret.summary]
    ELSE [article EXCEPT !.DescriptionVector = ret.vector]

\* The assignment a worker makes under the lock: its own field of its own
\* article, to the zero value on error and to the returned value otherwise.
WriteField(article, kind, ret) ==
    IF kind = "summary"
    THEN [article EXCEPT !.Summary = IF ret.err THEN "" ELSE ret.summary]
    ELSE [article EXCEPT !.DescriptionVector = IF ret.err THEN <<>> ELSE ret.vector]

\* A goroutine not yet started.
Unborn ==
    [pc |-> "unborn", ok |-> FALSE, ret |-> [summary |-> "", vector |-> <<>>, err |-> FALSE],
     tmp |-> 0, currentCount |-> 0]

\* The files: absent, not JSON, an empty list, and lists of articles (the
\* last holds an article BulkInsert refuses).
Files ==
    { [exists |-> FALSE, decodes |-> FALSE, articles |-> <<>>],
      [exists |-> TRUE, decodes |-> FALSE, articles |-> <<>>] }
    \cup { [exists |-> TRUE, decodes |-> TRUE, articles |-> l] :
              l \in { s \in SeqsUpTo({D1, D3, [D1 EXCEPT !.ID = "d4", !.RelevanceScore = 101]},
                                     MaxArticles) :
                         \A i, j \in 1..Len(s) : i # j => s[i] # s[j] } }

\* LoadFromJSON up to the enrichment loop.
LoadFromJSON ==
    /\ load.pc = "idle"
    /\ \E file \in Files :
          IF ~file.exists \/ ~file.decodes
          THEN load' = [load EXCEPT !.pc = "returned", !.file = file.articles, !.err = TRUE]
          ELSE IF Len(file.articles) = 0
          THEN load' = [load EXCEPT !.pc = "returned", !.file = file.articles]
          ELSE load' = [load EXCEPT !.pc = "spawn", !.file = file.articles,
                                    !.articles = file.articles,
                                    !.w = [id \in Workers(Len(file.articles)) |-> Unborn]]
    /\ UNCHANGED <<db, pc, req, filters, idx, articles, result, trace, now, userEvents, cache,
                   lastTrending, lastGet, served, lastInsert, reply, cancelled>>

\* One turn of the loop: wg.Add(2) and the two go statements.
Spawn ==
    /\ load.pc = "spawn"
    /\ load' = [load EXCEPT
                  !.wg = @ + 2,
                  !.w[<<load.next, "summary">>].pc = "call",
                  !.w[<<load.next, "embedding">>].pc = "call",
                  !.next = @ + 1,
                  !.pc = IF load.next = Len(load.articles) THEN "wait" ELSE "spawn"]
    /\ UNCHANGED <<db, pc, req, filters, idx, articles, result, trace, now, userEvents, cache,
                   lastTrending, lastGet, served, lastInsert, reply, cancelled>>

\* A worker calls the LLM.
WorkerCall ==
    /\ \E id \in DOMAIN load.w, ok \in BOOLEAN :
          /\ load.w[id].pc = "call"
          /\ load' = [load EXCEPT
                        !.w[id].pc = "lock1",
                        !.w[id].ok = ok,
                        !.w[id].ret = IF id[2] = "summary" THEN GenerateSummary(id[1], ok)
                                      ELSE GenerateEmbedding(id[1], ok)]
    /\ UNCHANGED <<db, pc, req, filters, idx, articles, result, trace, now, userEvents, cache,
                   lastTrending, lastGet, served, lastInsert, reply, cancelled>>

\* mu.Lock() before the write of the field.
WorkerLockField ==
    /\ \E id \in DOMAIN load.w :
          /\ load.w[id].pc = "lock1"
          /\ MutexFree(load.mu)
          /\ load' = [load EXCEPT !.w[id].pc = "write", !.mu = id]
    /\ UNCHANGED <<db, pc, req, filters, idx, articles, result, trace, now, userEvents, cache,
                   lastTrending, lastGet, served, lastInsert, reply, cancelled>>

\* articles[idx].Summary = ... or articles[idx].DescriptionVector = ..., then
\* mu.Unlock().
WorkerWrite ==
    /\ \E id \in DOMAIN load.w :
          /\ load.w[id].pc = "write"
          /\ load' = [load EXCEPT
                        !.articles[id[1]] = WriteField(@, id[2], load.w[id].ret),
                        !.mu = Free,
                        !.w[id].pc = "lock2"]
    /\ UNCHANGED <<db, pc, req, filters, idx, articles, result, trace, now, userEvents, cache,
                   lastTrending, lastGet, served, lastInsert, reply, cancelled>>

\* mu.Lock() before the progress counter.
WorkerLockCount ==
    /\ \E id \in DOMAIN load.w :
          /\ load.w[id].pc = "lock2"
          /\ MutexFree(load.mu)
          /\ load' = [load EXCEPT !.w[id].pc = "read", !.mu = id]
    /\ UNCHANGED <<db, pc, req, filters, idx, articles, result, trace, now, userEvents, cache,
                   lastTrending, lastGet, served, lastInsert, reply, cancelled>>

\* completedCount++ reads the counter ...
WorkerRead ==
    /\ \E id \in DOMAIN load.w :
          /\ load.w[id].pc = "read"
          /\ load' = [load EXCEPT !.w[id].pc = "incr", !.w[id].tmp = load.completedCount]
    /\ UNCHANGED <<db, pc, req, filters, idx, articles, result, trace, now, userEvents, cache,
                   lastTrending, lastGet, served, lastInsert, reply, cancelled>>

\* ... and stores it plus one; currentCount := completedCount; mu.Unlock().
WorkerIncr ==
    /\ \E id \in DOMAIN load.w :
          /\ load.w[id].pc = "incr"
          /\ load' = [load EXCEPT
                        !.completedCount = load.w[id].tmp + 1,
                        !.w[id].currentCount = load.w[id].tmp + 1,
                        !.mu = Free,
                        !.w[id].pc = "done"]
    /\ UNCHANGED <<db, pc, req, filters, idx, articles, result, trace, now, userEvents, cache,
                   lastTrending, lastGet, served, lastInsert, reply, cancelled>>

\* The deferred wg.Done().
WorkerDone ==
    /\ \E id \in DOMAIN load.w :
          /\ load.w[id].pc = "done"
          /\ load' = [load EXCEPT !.wg = @ - 1, !.w[id].pc = "exit"]
    /\ UNCHANGED <<db, pc, req, filters, idx, articles, result, trace, now, userEvents, cache,
                   lastTrending, lastGet, served, lastInsert, reply, cancelled>>

\* wg.Wait() returns.
Wait ==
    /\ load.pc = "wait"
    /\ WaitReturns(load.wg)
    /\ load' = [load EXCEPT !.pc = "insert"]
    /\ UNCHANGED <<db, pc, req, filters, idx, articles, result, trace, now, userEvents, cache,
                   lastTrending, lastGet, served, lastInsert, reply, cancelled>>

\* s.articleRepo.BulkInsert(articles) and the return of LoadFromJSON.
LoadInsert ==
    /\ load.pc = "insert"
    /\ \E o \in BulkInsert(db, load.articles) :
          /\ db' = db \cup o.added
          /\ lastInsert' = [called |-> TRUE, op |-> "BulkInsert", batch |-> load.articles,
                            err |-> o.err, stats |-> o.stats, added |-> o.added]
          /\ load' = [load EXCEPT !.pc = "returned", !.err = o.err]
    /\ UNCHANGED <<pc, req, filters, idx, articles, result, trace, now, userEvents, cache,
                   lastTrending, lastGet, served, reply, cancelled>>

LoadInit ==
    /\ db = {}
    /\ pc = "idle"
    /\ req = [intents |-> <<>>, entities |-> <<>>, location |-> NoLocation]
    /\ filters = <<>>
    /\ idx = 1
    /\ articles = <<>>
    /\ result = NoResult
    /\ trace = <<>>
    /\ now = 0
    /\ userEvents = NoEvents
    /\ cache = {}
    /\ lastTrending = NoTrending
    /\ lastGet = NoGet
    /\ served = 0
    /\ load = NoLoad
    /\ lastInsert = NoInsert
    /\ reply = NoReply
    /\ cancelled = FALSE

LoadNext ==
    \/ LoadFromJSON \/ Spawn \/ WorkerCall \/ WorkerLockField \/ WorkerWrite
    \/ WorkerLockCount \/ WorkerRead \/ WorkerIncr \/ WorkerDone \/ Wait \/ LoadInsert

LoadSpec == LoadInit /\ [][LoadNext]_vars

--------------------------------------------------------------------------
(* Claims about LoadFromJSON *)

\* wg.Wait() has returned in a call that reached the enrichment loop.
BarrierPassed == load.pc = "insert" \/ (load.pc = "returned" /\ lastInsert.called)

\* The workers that have been through the counter section.
Counted == {id \in DOMAIN load.w : load.w[id].pc \in {"done", "exit"}}

\* The workers that have been through the write of their field.
Written == {id \in DOMAIN load.w : load.w[id].pc \in {"lock2", "read", "incr", "done", "exit"}}

\* C16: BulkInsert is called only after both enrichment tasks of every
\* article have finished, whatever the interleaving: once wg.Wait() has
\* returned every worker has exited, and the batch BulkInsert received is
\* the slice as the workers left it.
C16_InsertOnlyAfterAllWorkersFinished ==
    /\ BarrierPassed => \A id \in DOMAIN load.w : load.w[id].pc = "exit"
    /\ lastInsert.called =>
          /\ \A id \in Workers(Len(lastInsert.batch)) :
                id \in DOMAIN load.w /\ load.w[id].pc = "exit"
          /\ lastInsert.batch = load.articles

C16_Witness ==
    /\ lastInsert.called
    /\ Len(lastInsert.batch) >= 2
    /\ \A id \in DOMAIN load.w : load.w[id].pc = "exit"

\* C17: the completed-operations counter is incremented exactly once per
\* worker under the lock and no update is lost: it always counts the workers
\* that have been through the counter section, a worker between Lock and
\* Unlock holds the mutex, the values read back are distinct, and past the
\* barrier the counter is 2N and each of 1..2N was read back by exactly one
\* worker.
C17_CounterLosesNoUpdate ==
    /\ load.completedCount = Cardinality(Counted)
    /\ \A id \in DOMAIN load.w :
          load.w[id].pc \in {"write", "read", "incr"} => load.mu = id
    /\ \A id \in Counted : load.w[id].currentCount \in 1..load.completedCount
    /\ \A id1, id2 \in Counted :
          id1 # id2 => load.w[id1].currentCount # load.w[id2].currentCount
    /\ BarrierPassed =>
          /\ load.completedCount = 2 * Len(load.articles)
          /\ \A v \in 1..(2 * Len(load.articles)) :
                Cardinality({id \in DOMAIN load.w : load.w[id].currentCount = v}) = 1

C17_Witness ==
    /\ BarrierPassed
    /\ Len(load.articles) >= 2
    /\ load.completedCount = 2 * Len(load.articles)
    /\ load.w[<<2, "embedding">>].currentCount = 1
    /\ load.w[<<1, "summary">>].currentCount = 2 * Len(load.articles)

\* The article at i of the file with the enrichment fields the workers that
\* have written so far got from their own calls.
Enriched(i) ==
    LET sw == load.w[<<i, "summary">>]
        ew == load.w[<<i, "embedding">>]
        a  == load.file[i]
    IN  [a EXCEPT
           !.Summary = IF <<i, "summary">> \in Written
                       THEN (IF sw.ok THEN SummaryText(i) ELSE "") ELSE a.Summary,
           !.DescriptionVector = IF <<i, "embedding">> \in Written
                                 THEN (IF ew.ok THEN EmbeddingVector(i) ELSE <<>>)
                                 ELSE a.DescriptionVector]

\* C18: a failed summary or embedding call empties only that field of that
\* article: every field a worker has written holds what that worker's own
\* call returned (empty when it failed), every other field is as decoded,
\* and BulkInsert receives all N articles in that state.
C18_FailureEmptiesOnlyItsOwnField ==
    /\ load.pc \in {"spawn", "wait", "insert"} \/ lastInsert.called =>
          /\ Len(load.articles) = Len(load.file)
          /\ \A i \in 1..Len(load.file) : load.articles[i] = Enriched(i)
    /\ lastInsert.called =>
          /\ Len(lastInsert.batch) = Len(load.file)
          /\ \A i \in 1..Len(load.file) :
                /\ lastInsert.batch[i] = Enriched(i)
                /\ lastInsert.batch[i].Summary =
                      IF load.w[<<i, "summary">>].ok THEN SummaryText(i) ELSE ""
                /\ lastInsert.batch[i].DescriptionVector =
                      IF load.w[<<i, "embedding">>].ok THEN EmbeddingVector(i) ELSE <<>>

C18_Witness ==
    /\ lastInsert.called
    /\ Len(lastInsert.batch) = 2
    /\ load.file[2].Summary # ""
    /\ ~load.w[<<1, "embedding">>].ok /\ load.w[<<1, "summary">>].ok
    /\ ~load.w[<<2, "summary">>].ok /\ load.w[<<2, "embedding">>].ok
    /\ lastInsert.batch[1].Summary = SummaryText(1)
    /\ lastInsert.batch[1].DescriptionVector = <<>>
    /\ lastInsert.batch[2].Summary = ""
    /\ lastInsert.batch[2].DescriptionVector = EmbeddingVector(2)

--------------------------------------------------------------------------
(* Claims about the ranking of a category / text / score pipeline *)

\* The stored row of a returned article (the queries do not read
\* description_vector, the table holds it).
Stored(a) == CHOOSE r \in db : r.ID = a.ID

\* Execute has returned the result of a pipeline CategoryFilter ->
\* TextSimilarityFilter -> ScoreFilter whose text stage embedded the query.
CategoryTextScoreReturned ==
    /\ pc = "done"
    /\ ~result.err
    /\ Len(filters) = 3
    /\ filters[1].kind = "category" /\ filters[2].kind = "text" /\ filters[3].kind = "score"
    /\ Len(trace) = 3
    /\ trace[2].embedded

\* C20: in the result of a pipeline CategoryFilter -> TextSimilarityFilter ->
\* ScoreFilter, of two returned articles (both pass the score floor) the one
\* more similar to the query comes first, whatever their relevance scores.
C20_SimilarityOrderSurvivesScoreStage ==
    CategoryTextScoreReturned =>
        \A i, j \in 1..Len(result.articles) :
            LET q  == trace[2].vector
                vi == Stored(result.articles[i]).DescriptionVector
                vj == Stored(result.articles[j]).DescriptionVector
            IN  (/\ Len(vi) # 0 /\ Len(vj) # 0
                 /\ result.articles[i].RelevanceScore >= filters[3].threshold
                 /\ result.articles[j].RelevanceScore >= filters[3].threshold
                 /\ SimGreater(cosineSimilarity(q, vi), cosineSimilarity(q, vj)))
                => i < j

--------------------------------------------------------------------------
(* Claims about the single filters *)

\* The calls of the trace made by a filter of the given kind on a non-empty
\* slice.
InMemoryCalls(kind) ==
    {k \in 1..Len(trace) :
        trace[k].filter.kind = kind /\ Len(trace[k].in) > 0 /\ ~trace[k].err}

\* C24: on a non-empty input ScoreFilter returns exactly the input articles
\* with relevance score at or above the threshold, in non-increasing order
\* of relevance score.
C24_ScoreFilterOutputIsSortedByRelevance ==
    \A k \in InMemoryCalls("score") :
        LET out == trace[k].out
            thr == trace[k].filter.threshold
        IN  /\ Range(out) = {a \in Range(trace[k].in) : a.RelevanceScore >= thr}
            /\ Len(out) = Cardinality(Range(out))
            /\ \A i, j \in 1..Len(out) :
                  i < j => out[i].RelevanceScore >= out[j].RelevanceScore

\* C25: on a non-empty input and a centre other than (0,0), GeoRadiusFilter
\* returns its articles in non-decreasing order of distance to the centre.
C25_RadiusFilterOutputIsSortedByDistance ==
    \A k \in InMemoryCalls("radius") :
        LET out == trace[k].out
            f   == trace[k].filter
        IN  ~(f.lat = 0 /\ f.lon = 0) =>
                \A i, j \in 1..Len(out) :
                    i < j => haversineDistance(f.lat, f.lon, out[i].Latitude, out[i].Longitude)
                             <= haversineDistance(f.lat, f.lon, out[j].Latitude, out[j].Longitude)

\* C26: GeoRadiusFilter passes its input through, without a storage query,
\* only for the centre (0,0); for every other centre, one with a single zero
\* coordinate included, every article it returns lies within radiusKm of the
\* centre, whether it filtered in memory or fetched from storage.
C26_RadiusFilterReturnsOnlyArticlesInRadius ==
    \A k \in 1..Len(trace) :
        LET f == trace[k].filter
        IN  (f.kind = "radius" /\ ~trace[k].err) =>
                IF f.lat = 0 /\ f.lon = 0
                THEN trace[k].out = trace[k].in /\ ~trace[k].queried
                ELSE \A a \in Range(trace[k].out) :
                        haversineDistance(f.lat, f.lon, a.Latitude, a.Longitude) <= f.radius

\* C27: for a request with several categories, CategoryFilter selects the
\* articles of the corpus that carry at least one of them, the same set
\* whether the corpus is its input slice or the table it fetches from.
C27_CategoryFilterSelectsAnyMatchBothWays ==
    \A k \in 1..Len(trace) :
        LET f == trace[k].filter
            AnyMatch(a) == a.Category \cap Range(f.strs) # {}
        IN  (f.kind = "category" /\ Len(f.strs) >= 2 /\ ~trace[k].err) =>
                IF Len(trace[k].in) > 0
                THEN Range(trace[k].out) = {a \in Range(trace[k].in) : AnyMatch(a)}
                ELSE Range(trace[k].out) = {Scan(a) : a \in {r \in db : AnyMatch(r)}}

\* C28: on a non-empty input and a non-empty query string, TextSimilarityFilter
\* returns exactly the input articles that have an embedding, each once, in
\* non-increasing order of cosine similarity to the query embedding; no
\* article without an embedding is returned.
C28_TextFilterKeepsEmbeddedArticlesBySimilarity ==
    \A k \in 1..Len(trace) :
        LET f   == trace[k].filter
            out == trace[k].out
            q   == trace[k].vector
        IN  (/\ f.kind = "text" /\ Len(f.strs) > 0 /\ ~JoinIsEmpty(f.strs)
             /\ Len(trace[k].in) > 0 /\ ~trace[k].err) =>
                /\ trace[k].embedded /\ ~trace[k].queried
                /\ Range(out) = {a \in Range(trace[k].in) : Len(a.DescriptionVector) # 0}
                /\ Len(out) = Cardinality(Range(out))
                /\ \A i, j \in 1..Len(out) :
                      i < j => ~SimGreater(cosineSimilarity(q, out[j].DescriptionVector),
                                           cosineSimilarity(q, out[i].DescriptionVector))

\* The filter dropped an article without an embedding and moved a more
\* similar article in front of a less similar one.
C28_Witness ==
    \E k \in 1..Len(trace) :
        /\ trace[k].filter.kind = "text" /\ trace[k].embedded /\ ~trace[k].err
        /\ Len(trace[k].in) = 3 /\ Len(trace[k].out) = 2
        /\ \E a \in Range(trace[k].in) : Len(a.DescriptionVector) = 0
        /\ trace[k].out[1] = trace[k].in[3]
        /\ SimGreater(cosineSimilarity(trace[k].vector, trace[k].out[1].DescriptionVector),
                      cosineSimilarity(trace[k].vector, trace[k].out[2].DescriptionVector))

--------------------------------------------------------------------------
(* Insert, BulkInsert and Execute on one table *)

\* Enriched articles: valid, each with the embedding of its description.
E1 == [D1 EXCEPT !.DescriptionVector = <<1, 0>>]
E2 == [D2 EXCEPT !.RelevanceScore = 60, !.Latitude = PT[1], !.Longitude = PT[2],
                 !.DescriptionVector = <<0, 1>>]

EmbeddedSamples == {E1, E2}

\* A call of Insert with an enriched article (the call is not recorded in
\* lastInsert, which the claims about Execute do not read).
InsertEmbedded ==
    /\ \E article \in EmbeddedSamples : \E o \in Insert(db, article) :
          db' = db \cup o.added
    /\ UNCHANGED <<pc, req, filters, idx, articles, result, trace, now, userEvents, cache,
                   lastTrending, lastGet, served, load, lastInsert, reply, cancelled>>

\* A call of BulkInsert with enriched articles.
BulkInsertEmbedded ==
    /\ \E batch \in SeqsUpTo(EmbeddedSamples, MaxBatch) : \E o \in BulkInsert(db, batch) :
          db' = db \cup o.added
    /\ UNCHANGED <<pc, req, filters, idx, articles, result, trace, now, userEvents, cache,
                   lastTrending, lastGet, served, load, lastInsert, reply, cancelled>>

RoundTripNext ==
    InsertEmbedded \/ BulkInsertEmbedded \/ Execute \/ ChainStep \/ ChainReturn

\* The table starts empty: every row was stored by Insert or BulkInsert.
RoundTripSpec == InsertInit /\ [][RoundTripNext]_vars

\* C21: an article stored with embedding E and handed to the text stage of an
\* Execute pipeline whose query embedding is E is in the output of that stage
\* and first in it.
C21_StoredEmbeddingRanksFirstForItsOwnQuery ==
    \A k \in 1..Len(trace) :
        (trace[k].filter.kind = "text" /\ trace[k].embedded /\ ~trace[k].err) =>
            \A a \in Range(trace[k].in) :
                (/\ \E r \in db : r.ID = a.ID
                 /\ Len(Stored(a).DescriptionVector) # 0
                 /\ Stored(a).DescriptionVector = trace[k].vector) =>
                    /\ Len(trace[k].out) > 0
                    /\ trace[k].out[1].ID = a.ID

--------------------------------------------------------------------------
(* ProcessArticleQuery *)

MaxReturned == 5     \* if len(filteredArticles) > 5 { filteredArticles = filteredArticles[:5] }

\* A truncation that keeps the tail of the slice.
TruncateToLastFive(filteredArticles) ==
    IF Len(filteredArticles) > MaxReturned
    THEN SubSeq(filteredArticles, Len(filteredArticles) - MaxReturned + 1, Len(filteredArticles))
    ELSE filteredArticles

\* filteredArticles[:5] when the slice is longer than 5.
TruncateToFive(filteredArticles) ==
    IF Len(filteredArticles) > MaxReturned
    THEN SubSeq(filteredArticles, 1, MaxReturned)
    ELSE filteredArticles

\* Six articles the category, source and score stages of the model's
\* pipelines keep, with distinct dates and scores (one order per query).
B1 == Article("b1", {Tech}, Reuters, 20, PF, -20, <<>>)
B2 == Article("b2", {Tech}, Reuters, 30, PF, -19, <<>>)
B3 == Article("b3", {Tech}, Reuters, 40, PF, -18, <<>>)
B4 == Article("b4", {Tech}, Reuters, 60, PF, -17, <<>>)
B5 == Article("b5", {Tech}, Reuters, 70, PF, -16, <<>>)
B6 == Article("b6", {Tech}, Reuters, 95, PF, -15, <<>>)

QueryCorpora == {{A1, A2}, {B1, B2, B3, B4, B5, B6}}

\* ProcessArticleQuery up to its call of Execute: GetDistinctSourceNames,
\* GetDistinctCategories and ProcessQuery, each of which may fail and end the
\* call.  What the analysis holds is Execute's choice of intents and entities.
ProcessArticleQuery ==
    /\ pc = "idle"
    /\ reply.stage = "none"
    /\ \E failed \in {"sources", "categories", "analysis", "none"} :
          reply' = IF failed = "none"
                   THEN [reply EXCEPT !.stage = "executing"]
                   ELSE [stage |-> "returned", articles |-> <<>>, err |-> TRUE]
    /\ UNCHANGED <<db, pc, req, filters, idx, articles, result, trace, now, userEvents, cache,
                   lastTrending, lastGet, served, load, lastInsert, cancelled>>

\* ProcessArticleQuery after Execute has returned.
QueryReturn ==
    /\ reply.stage = "executing"
    /\ pc = "done"
    /\ reply' = IF result.err
                THEN [stage |-> "returned", articles |-> <<>>, err |-> TRUE]
                ELSE [stage |-> "returned", articles |-> TruncateToFive(result.articles),
                      err |-> FALSE]
    /\ UNCHANGED <<db, pc, req, filters, idx, articles, result, trace, now, userEvents, cache,
                   lastTrending, lastGet, served, load, lastInsert, cancelled>>

QueryInit ==
    /\ db \in QueryCorpora
    /\ pc = "idle"
    /\ req = [intents |-> <<>>, entities |-> <<>>, location |-> NoLocation]
    /\ filters = <<>>
    /\ idx = 1
    /\ articles = <<>>
    /\ result = NoResult
    /\ trace = <<>>
    /\ now = 0
    /\ userEvents = NoEvents
    /\ cache = {}
    /\ lastTrending = NoTrending
    /\ lastGet = NoGet
    /\ served = 0
    /\ load = NoLoad
    /\ lastInsert = NoInsert
    /\ reply = NoReply
    /\ cancelled = FALSE

QueryNext == ProcessArticleQuery \/ Execute \/ ChainStep \/ ChainReturn \/ QueryReturn

QuerySpec == QueryInit /\ [][QueryNext]_vars

\* C22: ProcessArticleQuery returns at most 5 articles, and they are the
\* first five of what Execute returned, in the same order.
C22_QueryReturnsFirstFiveOfExecute ==
    (reply.stage = "returned" /\ ~reply.err) =>
        /\ pc = "done" /\ ~result.err
        /\ Len(reply.articles) <= 5
        /\ Len(reply.articles) = Min(5, Len(result.articles))
        /\ \A i \in 1..Len(reply.articles) : reply.articles[i] = result.articles[i]

C22_Witness ==
    /\ reply.stage = "returned" /\ ~reply.err
    /\ Len(result.articles) = 6
    /\ Len(reply.articles) = 5
    /\ reply.articles[1] = result.articles[1]
    /\ result.articles[6] \notin Range(reply.articles)

--------------------------------------------------------------------------
(* Claims about the articles GetTrendingNews returns *)

\* The article id has at least one row in user_events.
HasEvent(id) == \E t \in DOMAIN userEvents[id] : userEvents[id][t] > 0

\* C23: every article GetTrendingNews returns has at least one recorded user
\* event.
C23_TrendingArticlesHaveEvents ==
    (lastTrending.called /\ ~lastTrending.err) =>
        \A i \in 1..Len(lastTrending.articles) : HasEvent(lastTrending.articles[i].ID)

\* A call returned fewer articles than its limit while the table held an
\* article without events.
C23_Witness ==
    /\ lastTrending.called /\ ~lastTrending.err
    /\ Len(lastTrending.articles) > 0
    /\ Len(lastTrending.articles) < lastTrending.limit
    /\ lastTrending.failed = {}
    /\ \E a \in db : ~HasEvent(a.ID)

--------------------------------------------------------------------------
(* The life of a cached trending entry *)

\* Reads, writes, interactions and the clock on the start-up keyspaces.
ExpiryNext == GetCachedTrending \/ GetTrendingNews \/ RecordInteraction \/ Tick

ExpirySpec == CacheInit /\ [][ExpiryNext]_vars

\* C29: GetCachedTrending returns an entry only while its time-to-live has
\* not elapsed (a read after that is a miss); an entry that has not expired
\* stays in the keyspace unchanged unless the step is a Put to its key or a
\* read of its key that found the payload corrupt; a step that records a user
\* interaction leaves the keyspace as it was.
C29_EntryLivesUntilTTLAndOnlyPutOrCorruptReadTouchIt ==
    [][ /\ (served' # served /\ lastGet'.called) =>
              LET cacheKey == generateCacheKey(lastGet'.lat, lastGet'.lon, lastGet'.limit)
              IN  /\ lastGet'.found =>
                        \E e \in cache : /\ e.key = cacheKey /\ now < e.expires
                                         /\ ~Unmarshal(e.payload).err
                                         /\ lastGet'.articles = Unmarshal(e.payload).articles
                  /\ (\A e \in cache : e.key = cacheKey => now >= e.expires) =>
                        (~lastGet'.found /\ cache' = cache)
        /\ \A e \in cache :
              (now < e.expires /\ e \notin cache') =>
                  \/ /\ served' # served /\ ~lastGet'.called /\ lastTrending'.cached
                     /\ \E w \in cache' : w.key = e.key /\ w.expires = now + cacheTTL
                  \/ /\ served' # served /\ lastGet'.called /\ lastGet'.corrupt
                     /\ e.key = generateCacheKey(lastGet'.lat, lastGet'.lon, lastGet'.limit)
        /\ userEvents' # userEvents => cache' = cache
        /\ now' # now => cache' = cache
      ]_vars

\* An interaction was recorded while the entry was live, and a read of the
\* entry's key after its expiry was a miss.
C29_Witness ==
    /\ lastGet.called /\ ~lastGet.found /\ ~lastGet.redisErr /\ ~lastGet.corrupt
    /\ \E e \in cache :
          /\ e.key = generateCacheKey(lastGet.lat, lastGet.lon, lastGet.limit)
          /\ ~Unmarshal(e.payload).err
          /\ e.expires <= lastGet.at
          /\ \E t \in (e.expires - cacheTTL)..(e.expires - 1) : userEvents["a1"][t] > 0

--------------------------------------------------------------------------
(* Cancellation *)

\* The caller's timeout or cancellation fires while Execute is running.
\* Execute has no context parameter: it hands context.Background() to Chain,
\* so nothing in Execute, Chain or the filters reads this signal.
Cancel ==
    /\ pc = "chain"
    /\ ~cancelled
    /\ cancelled' = TRUE
    /\ UNCHANGED <<db, pc, req, filters, idx, articles, result, trace, now, userEvents, cache,
                   lastTrending, lastGet, served, load, lastInsert, reply>>

CancelNext == Execute \/ ChainStep \/ ChainReturn \/ Cancel

CancelSpec == ChainInit /\ [][CancelNext]_vars

\* C30: once the caller's cancellation signal has fired during Execute, no
\* filter starts a storage query or an embedding request.
C30_NoExternalCallAfterCancel ==
    [][ (cancelled /\ Len(trace') > Len(trace)) =>
            (~trace'[Len(trace')].queried /\ ~trace'[Len(trace')].embedded) ]_vars

====
